---- MODULE Spec2Model ----
(***************************************************************************)
(* A model of the genome-music correlation engine, GenomeMusicCorrelator   *)
(* (src/src/correlator.py).  A correlator holds three mappings; its seven  *)
(* rules and run_all() are pure functions of them.                         *)
(*                                                                         *)
(* Encoding of Python values:                                              *)
(*   dict            a function whose DOMAIN is the set of keys present    *)
(*   d.get(k, dflt)  Get(d, k, dflt)                                       *)
(*   None            NoneValue where a dict is expected, and the empty     *)
(*                   tuple << >> where a number is expected (<<h>> is the  *)
(*                   number h)                                             *)
(*   a raise         [kind |-> "raise", exc |-> <exception class>]         *)
(* Units: tempo in BPM; valence mean, valence std and repeat ratio in      *)
(* hundredths (0.55 is 55); diversity index and low-valence percentage in  *)
(* whole units.  Every threshold of the code is exact in these units.      *)
(***************************************************************************)
EXTENDS Integers, Sequences, FiniteSets, TLC

VARIABLES
    sonic,      \* self.sonic: the sonic profile
    genome,     \* self.genome: the genome context
    temporal,   \* self.temporal: the temporal profile, or None
    op,         \* the method called last ("init" right after construction)
    ret,        \* what that call returned or raised
    tracks,     \* the track list handed to an analyzer
    genre_diversity,  \* the genre_diversity argument of compute_diversity_index
    tie,        \* how round() settles a decimal tie: "down" or "up"
    arguments   \* the arguments of the function called, by parameter name;
                \* for the collector, its frame and what the API answers

vars == <<sonic, genome, temporal, op, ret, tracks, genre_diversity, tie, arguments>>

\* what the other components are called with; the correlator does not read it
args == <<tracks, genre_diversity, tie, arguments>>

self == [sonic |-> sonic, genome |-> genome, temporal |-> temporal]

----------------------------------------------------------------------------
(* Python values *)

EmptyDict == [k \in {} |-> 0]

NoneValue == [kind |-> "None"]

IsNone(v) == DOMAIN v = {"kind"} /\ v.kind = "None"

\* bool(d) for a dict-or-None d: None and the empty dict are falsy
Truthy(d) == ~IsNone(d) /\ DOMAIN d # {}

Get(d, k, default) == IF k \in DOMAIN d THEN d[k] ELSE default

ReturnNone == [kind |-> "none"]

Raise(exc) == [kind |-> "raise", exc |-> exc]

----------------------------------------------------------------------------
(* The result record *)

_make_result(correlation_id, gene, gene_status, metric_name, metric_value, expected_ranges, verdict, why_matters, why_bs, confidence) ==
    [kind |-> "result",
     id |-> correlation_id,
     gene |-> gene,
     gene_status |-> gene_status,
     metric |-> metric_name,
     value |-> metric_value,
     expected_ranges |-> expected_ranges,
     verdict |-> verdict,
     why_matters |-> why_matters,
     why_bs |-> why_bs,
     confidence |-> confidence]

----------------------------------------------------------------------------
(* The rules.  A verdict is modelled by the opening words of its template;  *)
(* the numbers formatted into it are left out.                              *)

correlate_caffeine_tempo(s) ==
    LET genes == Get(s.genome, "genes", EmptyDict) IN
    IF "CYP1A2" \notin DOMAIN genes THEN ReturnNone
    ELSE
    LET gene_info == genes["CYP1A2"] IN
    IF "status" \notin DOMAIN gene_info THEN Raise("KeyError")
    ELSE
    LET status == gene_info["status"]
        audio_features == Get(s.sonic, "audio_features", EmptyDict)
        avg_tempo == Get(Get(audio_features, "tempo", EmptyDict), "mean", 0)
    IN
    IF avg_tempo = 0 THEN ReturnNone
    ELSE
    LET expected_ranges ==
            [fast |-> [min |-> 125, max |-> 140],
             intermediate |-> [min |-> 110, max |-> 125],
             slow |-> [min |-> 95, max |-> 115]]
        range_info == Get(expected_ranges, status, [min |-> 0, max |-> 999])
        in_range == range_info.min <= avg_tempo /\ avg_tempo <= range_info.max
        verdict ==
            IF in_range THEN "Textbook case!"
            ELSE IF avg_tempo > range_info.max THEN "Plot twist"
            ELSE "Unexpected chill"
    IN
    _make_result("caffeine_tempo", "CYP1A2", status, "Average Tempo (BPM)",
                 avg_tempo, expected_ranges, verdict,
                 "CYP1A2 controls how fast you break down caffeine.",
                 "Tempo preferences are shaped by culture, mood, genre exposure",
                 "weak")

\* a variant that tests the peak hour for truth: midnight (0) reads as no data
correlate_chronotype_hours_falsy_peak(s) ==
    LET chronotype == Get(s.genome, "chronotype", NoneValue) IN
    IF ~Truthy(chronotype) \/ ~Truthy(s.temporal) THEN ReturnNone
    ELSE
    LET me_score == Get(chronotype, "me_score", 0)
        me_label == Get(chronotype, "me_label", "Unknown")
        peak_hour == Get(s.temporal, "peak_hour", << >>)
    IN
    IF peak_hour = << >> \/ peak_hour = <<0>> THEN ReturnNone
    ELSE
    LET peak_hour_int == peak_hour[1]
        expected_ranges ==
            [Morning |-> [min |-> 6, max |-> 14, me_range |-> "ME > 0"],
             Evening |-> [min |-> 16, max |-> 23, me_range |-> "ME < 0"],
             Intermediate |-> [min |-> 10, max |-> 20, me_range |-> "ME ~ 0"]]
        chrono_category ==
            IF me_score > 0 THEN "Morning"
            ELSE IF me_score < 0 THEN "Evening"
            ELSE "Intermediate"
        range_info == expected_ranges[chrono_category]
        in_range == range_info.min <= peak_hour_int /\ peak_hour_int <= range_info.max
        verdict ==
            IF in_range THEN "Clockwork precision!"
            ELSE "Rebellion detected"
    IN
    _make_result("chronotype_hours", "Circadian Rhythm Genes", me_label,
                 "Peak Listening Hour", <<peak_hour_int, ":00">>,
                 expected_ranges, verdict,
                 "Chronotype (morningness-eveningness) affects when you're most alert and receptive.",
                 "Work schedules, kids, insomnia, time zones",
                 "moderate")

\* a variant that takes the category from the label of the chronotype
correlate_chronotype_hours_by_label(s) ==
    LET chronotype == Get(s.genome, "chronotype", NoneValue) IN
    IF ~Truthy(chronotype) \/ ~Truthy(s.temporal) THEN ReturnNone
    ELSE
    LET me_score == Get(chronotype, "me_score", 0)
        me_label == Get(chronotype, "me_label", "Unknown")
        peak_hour == Get(s.temporal, "peak_hour", << >>)
    IN
    IF peak_hour = << >> THEN ReturnNone
    ELSE
    LET peak_hour_int == peak_hour[1]
        expected_ranges ==
            [Morning |-> [min |-> 6, max |-> 14, me_range |-> "ME > 0"],
             Evening |-> [min |-> 16, max |-> 23, me_range |-> "ME < 0"],
             Intermediate |-> [min |-> 10, max |-> 20, me_range |-> "ME ~ 0"]]
        chrono_category ==
            IF me_label = "Morning Tendency" THEN "Morning"
            ELSE IF me_label = "Evening Tendency" THEN "Evening"
            ELSE "Intermediate"
        range_info == expected_ranges[chrono_category]
        in_range == range_info.min <= peak_hour_int /\ peak_hour_int <= range_info.max
        verdict ==
            IF in_range THEN "Clockwork precision!"
            ELSE "Rebellion detected"
    IN
    _make_result("chronotype_hours", "Circadian Rhythm Genes", me_label,
                 "Peak Listening Hour", <<peak_hour_int, ":00">>,
                 expected_ranges, verdict,
                 "Chronotype (morningness-eveningness) affects when you're most alert and receptive.",
                 "Work schedules, kids, insomnia, time zones",
                 "moderate")

correlate_chronotype_hours(s) ==
    LET chronotype == Get(s.genome, "chronotype", NoneValue) IN
    IF ~Truthy(chronotype) \/ ~Truthy(s.temporal) THEN ReturnNone
    ELSE
    LET me_score == Get(chronotype, "me_score", 0)
        me_label == Get(chronotype, "me_label", "Unknown")
        peak_hour == Get(s.temporal, "peak_hour", << >>)
    IN
    IF peak_hour = << >> THEN ReturnNone
    ELSE
    LET peak_hour_int == peak_hour[1]
        expected_ranges ==
            [Morning |-> [min |-> 6, max |-> 14, me_range |-> "ME > 0"],
             Evening |-> [min |-> 16, max |-> 23, me_range |-> "ME < 0"],
             Intermediate |-> [min |-> 10, max |-> 20, me_range |-> "ME ~ 0"]]
        chrono_category ==
            IF me_score > 0 THEN "Morning"
            ELSE IF me_score < 0 THEN "Evening"
            ELSE "Intermediate"
        range_info == expected_ranges[chrono_category]
        in_range == range_info.min <= peak_hour_int /\ peak_hour_int <= range_info.max
        verdict ==
            IF in_range THEN "Clockwork precision!"
            ELSE "Rebellion detected"
    IN
    _make_result("chronotype_hours", "Circadian Rhythm Genes", me_label,
                 "Peak Listening Hour", <<peak_hour_int, ":00">>,
                 expected_ranges, verdict,
                 "Chronotype (morningness-eveningness) affects when you're most alert and receptive.",
                 "Work schedules, kids, insomnia, time zones",
                 "moderate")

\* a variant whose range excludes its lower bound
correlate_comt_valence_exclusive_min(s) ==
    LET genes == Get(s.genome, "genes", EmptyDict) IN
    IF "COMT" \notin DOMAIN genes THEN ReturnNone
    ELSE
    LET gene_info == genes["COMT"] IN
    IF "status" \notin DOMAIN gene_info THEN Raise("KeyError")
    ELSE
    LET status == gene_info["status"]
        audio_features == Get(s.sonic, "audio_features", EmptyDict)
        avg_valence == Get(Get(audio_features, "valence", EmptyDict), "mean", 0)
    IN
    IF avg_valence = 0 THEN ReturnNone
    ELSE
    LET expected_ranges ==
            [fast |-> [min |-> 55, max |-> 75],
             intermediate |-> [min |-> 40, max |-> 60],
             slow |-> [min |-> 35, max |-> 55]]
        range_info == Get(expected_ranges, status, [min |-> 0, max |-> 100])
        in_range == range_info.min < avg_valence /\ avg_valence <= range_info.max
        verdict ==
            IF in_range THEN "Dopamine economics confirmed"
            ELSE IF avg_valence > range_info.max THEN "Suspiciously happy playlist"
            ELSE "Darker than expected"
    IN
    _make_result("comt_valence", "COMT", status, "Average Valence",
                 avg_valence, expected_ranges, verdict,
                 "COMT breaks down dopamine in the prefrontal cortex.",
                 "Valence is Spotify's guess at 'positivity'",
                 "speculative")

correlate_comt_valence(s) ==
    LET genes == Get(s.genome, "genes", EmptyDict) IN
    IF "COMT" \notin DOMAIN genes THEN ReturnNone
    ELSE
    LET gene_info == genes["COMT"] IN
    IF "status" \notin DOMAIN gene_info THEN Raise("KeyError")
    ELSE
    LET status == gene_info["status"]
        audio_features == Get(s.sonic, "audio_features", EmptyDict)
        avg_valence == Get(Get(audio_features, "valence", EmptyDict), "mean", 0)
    IN
    IF avg_valence = 0 THEN ReturnNone
    ELSE
    LET expected_ranges ==
            [fast |-> [min |-> 55, max |-> 75],
             intermediate |-> [min |-> 40, max |-> 60],
             slow |-> [min |-> 35, max |-> 55]]
        range_info == Get(expected_ranges, status, [min |-> 0, max |-> 100])
        in_range == range_info.min <= avg_valence /\ avg_valence <= range_info.max
        verdict ==
            IF in_range THEN "Dopamine economics confirmed"
            ELSE IF avg_valence > range_info.max THEN "Suspiciously happy playlist"
            ELSE "Darker than expected"
    IN
    _make_result("comt_valence", "COMT", status, "Average Valence",
                 avg_valence, expected_ranges, verdict,
                 "COMT breaks down dopamine in the prefrontal cortex.",
                 "Valence is Spotify's guess at 'positivity'",
                 "speculative")

\* a variant without the zero test: a profile without data is judged like any other
correlate_bdnf_diversity_no_sentinel(s) ==
    LET genes == Get(s.genome, "genes", EmptyDict) IN
    IF "BDNF" \notin DOMAIN genes THEN ReturnNone
    ELSE
    LET gene_info == genes["BDNF"] IN
    IF "status" \notin DOMAIN gene_info THEN Raise("KeyError")
    ELSE
    LET status == gene_info["status"]
        diversity_data == Get(s.sonic, "diversity", EmptyDict)
        diversity_index == Get(diversity_data, "diversity_index", 0)
    IN
    IF FALSE THEN ReturnNone
    ELSE
    LET expected_ranges ==
            [normal |-> [min |-> 55, max |-> 85],
             reduced |-> [min |-> 30, max |-> 55]]
        range_info == Get(expected_ranges, status, [min |-> 0, max |-> 100])
        in_range == range_info.min <= diversity_index /\ diversity_index <= range_info.max
        verdict ==
            IF in_range THEN "Neuroplasticity wins"
            ELSE IF diversity_index > range_info.max THEN "Genre omnivore alert"
            ELSE "Comfort zone specialist"
    IN
    _make_result("bdnf_diversity", "BDNF", status, "Diversity Index",
                 diversity_index, expected_ranges, verdict,
                 "BDNF (Brain-Derived Neurotrophic Factor) supports neuroplasticity",
                 "Diversity scores are biased",
                 "speculative")

correlate_bdnf_diversity(s) ==
    LET genes == Get(s.genome, "genes", EmptyDict) IN
    IF "BDNF" \notin DOMAIN genes THEN ReturnNone
    ELSE
    LET gene_info == genes["BDNF"] IN
    IF "status" \notin DOMAIN gene_info THEN Raise("KeyError")
    ELSE
    LET status == gene_info["status"]
        diversity_data == Get(s.sonic, "diversity", EmptyDict)
        diversity_index == Get(diversity_data, "diversity_index", 0)
    IN
    IF diversity_index = 0 THEN ReturnNone
    ELSE
    LET expected_ranges ==
            [normal |-> [min |-> 55, max |-> 85],
             reduced |-> [min |-> 30, max |-> 55]]
        range_info == Get(expected_ranges, status, [min |-> 0, max |-> 100])
        in_range == range_info.min <= diversity_index /\ diversity_index <= range_info.max
        verdict ==
            IF in_range THEN "Neuroplasticity wins"
            ELSE IF diversity_index > range_info.max THEN "Genre omnivore alert"
            ELSE "Comfort zone specialist"
    IN
    _make_result("bdnf_diversity", "BDNF", status, "Diversity Index",
                 diversity_index, expected_ranges, verdict,
                 "BDNF (Brain-Derived Neurotrophic Factor) supports neuroplasticity",
                 "Diversity scores are biased",
                 "speculative")

\* a variant that indexes the table with the status: an unknown status raises
correlate_serotonin_emotional_range_strict_lookup(s) ==
    LET genes == Get(s.genome, "genes", EmptyDict) IN
    IF "SLC6A4" \notin DOMAIN genes THEN ReturnNone
    ELSE
    LET gene_info == genes["SLC6A4"] IN
    IF "status" \notin DOMAIN gene_info THEN Raise("KeyError")
    ELSE
    LET status == gene_info["status"]
        audio_features == Get(s.sonic, "audio_features", EmptyDict)
        valence_std == Get(Get(audio_features, "valence", EmptyDict), "std", 0)
    IN
    IF valence_std = 0 THEN ReturnNone
    ELSE IF status \notin {"normal", "short"} THEN Raise("KeyError")
    ELSE
    LET expected_ranges ==
            [normal |-> [min |-> 15, max |-> 25],
             short |-> [min |-> 25, max |-> 40]]
        range_info == Get(expected_ranges, status, [min |-> 0, max |-> 100])
        in_range == range_info.min <= valence_std /\ valence_std <= range_info.max
        verdict ==
            IF in_range THEN "Emotional volatility confirmed"
            ELSE IF valence_std > range_info.max THEN "Extreme emotional whiplash"
            ELSE "Surprisingly stable"
    IN
    _make_result("serotonin_emotional_range", "SLC6A4", status, "Valence Standard Deviation",
                 valence_std, expected_ranges, verdict,
                 "SLC6A4 (serotonin transporter) regulates serotonin reuptake.",
                 "Emotional range in music could equally be: eclectic taste",
                 "speculative")

correlate_serotonin_emotional_range(s) ==
    LET genes == Get(s.genome, "genes", EmptyDict) IN
    IF "SLC6A4" \notin DOMAIN genes THEN ReturnNone
    ELSE
    LET gene_info == genes["SLC6A4"] IN
    IF "status" \notin DOMAIN gene_info THEN Raise("KeyError")
    ELSE
    LET status == gene_info["status"]
        audio_features == Get(s.sonic, "audio_features", EmptyDict)
        valence_std == Get(Get(audio_features, "valence", EmptyDict), "std", 0)
    IN
    IF valence_std = 0 THEN ReturnNone
    ELSE
    LET expected_ranges ==
            [normal |-> [min |-> 15, max |-> 25],
             short |-> [min |-> 25, max |-> 40]]
        range_info == Get(expected_ranges, status, [min |-> 0, max |-> 100])
        in_range == range_info.min <= valence_std /\ valence_std <= range_info.max
        verdict ==
            IF in_range THEN "Emotional volatility confirmed"
            ELSE IF valence_std > range_info.max THEN "Extreme emotional whiplash"
            ELSE "Surprisingly stable"
    IN
    _make_result("serotonin_emotional_range", "SLC6A4", status, "Valence Standard Deviation",
                 valence_std, expected_ranges, verdict,
                 "SLC6A4 (serotonin transporter) regulates serotonin reuptake.",
                 "Emotional range in music could equally be: eclectic taste",
                 "speculative")

\* a variant that prefers ANKK1 and falls back to DRD2
correlate_drd2_repeat_plays_prefers_ankk1(s) ==
    LET genes == Get(s.genome, "genes", EmptyDict) IN
    IF "DRD2" \notin DOMAIN genes /\ "ANKK1" \notin DOMAIN genes THEN ReturnNone
    ELSE
    LET gene_name == IF "ANKK1" \in DOMAIN genes THEN "ANKK1" ELSE "DRD2"
        gene_info == genes[gene_name]
    IN
    IF "status" \notin DOMAIN gene_info THEN Raise("KeyError")
    ELSE
    LET status == gene_info["status"]
        diversity == Get(s.sonic, "diversity", EmptyDict)
        repeat_ratio == Get(diversity, "repeat_ratio", 0)
        expected_ranges ==
            [normal |-> [min |-> 0, max |-> 15],
             reduced |-> [min |-> 20, max |-> 100]]
        range_info == Get(expected_ranges, status, [min |-> 0, max |-> 100])
        in_range == range_info.min <= repeat_ratio /\ repeat_ratio <= range_info.max
        verdict ==
            IF in_range THEN "Dopamine reward loop detected"
            ELSE IF repeat_ratio > range_info.max THEN "Obsessive replay behavior"
            ELSE "Novelty hunter"
    IN
    _make_result("drd2_repeat_plays", gene_name, status, "Repeat Play Ratio",
                 repeat_ratio, expected_ranges, verdict,
                 "DRD2/ANKK1 variants affect dopamine D2 receptor density.",
                 "Repeat plays are confounded by: algorithm loops",
                 "speculative")

correlate_drd2_repeat_plays(s) ==
    LET genes == Get(s.genome, "genes", EmptyDict) IN
    IF "DRD2" \notin DOMAIN genes /\ "ANKK1" \notin DOMAIN genes THEN ReturnNone
    ELSE
    LET gene_name == IF "DRD2" \in DOMAIN genes THEN "DRD2" ELSE "ANKK1"
        gene_info == genes[gene_name]
    IN
    IF "status" \notin DOMAIN gene_info THEN Raise("KeyError")
    ELSE
    LET status == gene_info["status"]
        diversity == Get(s.sonic, "diversity", EmptyDict)
        repeat_ratio == Get(diversity, "repeat_ratio", 0)
        expected_ranges ==
            [normal |-> [min |-> 0, max |-> 15],
             reduced |-> [min |-> 20, max |-> 100]]
        range_info == Get(expected_ranges, status, [min |-> 0, max |-> 100])
        in_range == range_info.min <= repeat_ratio /\ repeat_ratio <= range_info.max
        verdict ==
            IF in_range THEN "Dopamine reward loop detected"
            ELSE IF repeat_ratio > range_info.max THEN "Obsessive replay behavior"
            ELSE "Novelty hunter"
    IN
    _make_result("drd2_repeat_plays", gene_name, status, "Repeat Play Ratio",
                 repeat_ratio, expected_ranges, verdict,
                 "DRD2/ANKK1 variants affect dopamine D2 receptor density.",
                 "Repeat plays are confounded by: algorithm loops",
                 "speculative")

\* a variant that reads the gene entry with a default instead of returning None
correlate_oprm1_sad_music_default_gene(s) ==
    LET genes == Get(s.genome, "genes", EmptyDict)
        gene_info == Get(genes, "OPRM1", [status |-> "unknown"])
    IN
    IF "status" \notin DOMAIN gene_info THEN Raise("KeyError")
    ELSE
    LET status == gene_info["status"]
        audio_features == Get(s.sonic, "audio_features", EmptyDict)
        low_valence_pct == Get(audio_features, "low_valence_pct", 0)
    IN
    IF low_valence_pct = 0 THEN ReturnNone
    ELSE
    LET expected_ranges ==
            [normal |-> [min |-> 15, max |-> 25],
             enhanced |-> [min |-> 25, max |-> 40]]
        range_info == Get(expected_ranges, status, [min |-> 0, max |-> 100])
        in_range == range_info.min <= low_valence_pct /\ low_valence_pct <= range_info.max
        verdict ==
            IF in_range THEN "Sweet sadness confirmed"
            ELSE IF low_valence_pct > range_info.max THEN "Melancholy addict"
            ELSE "Avoiding the void"
    IN
    _make_result("oprm1_sad_music", "OPRM1", status, "Low-Valence Track Percentage",
                 low_valence_pct, expected_ranges, verdict,
                 "OPRM1 (mu-opioid receptor) mediates emotional and physical pain relief.",
                 "Low valence doesn't mean 'sad lyrics'",
                 "speculative")

correlate_oprm1_sad_music(s) ==
    LET genes == Get(s.genome, "genes", EmptyDict) IN
    IF "OPRM1" \notin DOMAIN genes THEN ReturnNone
    ELSE
    LET gene_info == genes["OPRM1"] IN
    IF "status" \notin DOMAIN gene_info THEN Raise("KeyError")
    ELSE
    LET status == gene_info["status"]
        audio_features == Get(s.sonic, "audio_features", EmptyDict)
        low_valence_pct == Get(audio_features, "low_valence_pct", 0)
    IN
    IF low_valence_pct = 0 THEN ReturnNone
    ELSE
    LET expected_ranges ==
            [normal |-> [min |-> 15, max |-> 25],
             enhanced |-> [min |-> 25, max |-> 40]]
        range_info == Get(expected_ranges, status, [min |-> 0, max |-> 100])
        in_range == range_info.min <= low_valence_pct /\ low_valence_pct <= range_info.max
        verdict ==
            IF in_range THEN "Sweet sadness confirmed"
            ELSE IF low_valence_pct > range_info.max THEN "Melancholy addict"
            ELSE "Avoiding the void"
    IN
    _make_result("oprm1_sad_music", "OPRM1", status, "Low-Valence Track Percentage",
                 low_valence_pct, expected_ranges, verdict,
                 "OPRM1 (mu-opioid receptor) mediates emotional and physical pain relief.",
                 "Low valence doesn't mean 'sad lyrics'",
                 "speculative")

----------------------------------------------------------------------------
(* run_all *)

methods ==
    <<"correlate_caffeine_tempo",
      "correlate_chronotype_hours",
      "correlate_comt_valence",
      "correlate_bdnf_diversity",
      "correlate_serotonin_emotional_range",
      "correlate_drd2_repeat_plays",
      "correlate_oprm1_sad_music">>

\* method(): the bound method named m, called on s
Call(m, s) ==
    CASE m = "correlate_caffeine_tempo" -> correlate_caffeine_tempo(s)
      [] m = "correlate_chronotype_hours" -> correlate_chronotype_hours(s)
      [] m = "correlate_comt_valence" -> correlate_comt_valence(s)
      [] m = "correlate_bdnf_diversity" -> correlate_bdnf_diversity(s)
      [] m = "correlate_serotonin_emotional_range" -> correlate_serotonin_emotional_range(s)
      [] m = "correlate_drd2_repeat_plays" -> correlate_drd2_repeat_plays(s)
      [] m = "correlate_oprm1_sad_music" -> correlate_oprm1_sad_music(s)

confidence_order == [moderate |-> 0, weak |-> 1, speculative |-> 2]

\* the sort key: lambda r: confidence_order.get(r["confidence"], 3)
SortKey(r) == Get(confidence_order, r.confidence, 3)

\* a variant that puts x before the elements of equal key: an unstable sort
RECURSIVE InsertUnstable(_, _)
InsertUnstable(sorted, x) ==
    IF sorted = << >> THEN <<x>>
    ELSE IF SortKey(Head(sorted)) < SortKey(x)
         THEN <<Head(sorted)>> \o InsertUnstable(Tail(sorted), x)
         ELSE <<x>> \o sorted

\* x put into the sorted list after every element whose key is <= its own
RECURSIVE InsertStable(_, _)
InsertStable(sorted, x) ==
    IF sorted = << >> THEN <<x>>
    ELSE IF SortKey(Head(sorted)) <= SortKey(x)
         THEN <<Head(sorted)>> \o InsertStable(Tail(sorted), x)
         ELSE <<x>> \o sorted

\* list.sort(key=...): a stable sort
RECURSIVE SortStable(_)
SortStable(list) ==
    IF list = << >> THEN << >>
    ELSE InsertStable(SortStable(SubSeq(list, 1, Len(list) - 1)), list[Len(list)])

\* a variant whose loop ends at the first rule that returns None
RECURSIVE CollectUntilNone(_, _, _)
CollectUntilNone(s, i, results) ==
    IF i > Len(methods) THEN [kind |-> "list", items |-> results]
    ELSE LET result == Call(methods[i], s) IN
         IF result.kind = "raise" THEN result
         ELSE IF result.kind = "none" THEN [kind |-> "list", items |-> results]
         ELSE CollectUntilNone(s, i + 1, Append(results, result))

\* the loop of run_all from method i on: a raise leaves the loop and run_all
RECURSIVE CollectFrom(_, _, _)
CollectFrom(s, i, results) ==
    IF i > Len(methods) THEN [kind |-> "list", items |-> results]
    ELSE LET result == Call(methods[i], s) IN
         IF result.kind = "raise" THEN result
         ELSE IF result.kind = "none" THEN CollectFrom(s, i + 1, results)
         ELSE CollectFrom(s, i + 1, Append(results, result))

\* a variant that returns the results as collected, unsorted
run_all_unsorted(s) == CollectFrom(s, 1, << >>)

run_all(s) ==
    LET collected == CollectFrom(s, 1, << >>) IN
    IF collected.kind = "raise" THEN collected
    ELSE [kind |-> "list", items |-> SortStable(collected.items)]

----------------------------------------------------------------------------
(* The inputs a correlator is constructed with.  Every rule reads its own   *)
(* slice of them: a gene entry (two for drd2_repeat_plays) and one metric   *)
(* of the sonic profile, or the chronotype block and the temporal profile.  *)

RuleSet == {"caffeine_tempo", "chronotype_hours", "comt_valence", "bdnf_diversity",
            "serotonin_emotional_range", "drd2_repeat_plays", "oprm1_sad_music"}

\* at most this many rules get their slice from the detailed sets at once
MaxDetailed == 1

\* an optional value: << >> (absent) or <<v>>
Opt(S) == {<< >>} \cup {<<v>> : v \in S}

\* the dict {k: v} of an optional value, {} when it is absent
Entry(k, o) == IF o = << >> THEN EmptyDict ELSE (k :> o[1])

\* the dict {k: d} of a nested dict d, {} when d has no key
SubDict(k, d) == IF DOMAIN d = {} THEN EmptyDict ELSE (k :> d)

\* a gene entry as the test fixtures and genome_linker build it
GeneRecord(g, st) == [status |-> st, gene |-> g, tier |-> 2]

\* a gene entry that carries no status
GeneRecordNoStatus(g) == [gene |-> g, tier |-> 2]

\* absent, each status the rule knows, the linker's default "unknown"; with
\* malformed input also an entry that carries no status
GeneOpts(g, statuses, malformed) ==
    {<< >>} \cup {<<GeneRecord(g, st)>> : st \in statuses \cup {"unknown"}}
            \cup (IF malformed THEN {<<GeneRecordNoStatus(g)>>} ELSE {})

\* metric samples: 0, values below, on and above the bounds of the ranges
TempoSamples == {0, 94, 125, 141, 1000}
ValenceSamples == {0, 34, 55, 76, 101}
DiversitySamples == {0, 29, 55, 86, 101}
ValenceStdSamples == {0, 14, 25, 41, 101}
RepeatSamples == {0, 15, 18, 20, 101}
LowValenceSamples == {0, 14, 25, 41, 101}
HourSamples == {0, 6, 10, 14, 15, 16, 20, 23}
MeScores == {-2, -1, 0, 1, 2}
MeLabels == {"Morning Tendency", "Evening Tendency"}

ChronotypeChoices ==
    {NoneValue} \cup
    {Entry("me_score", a) @@ Entry("me_label", b) : a \in Opt(MeScores), b \in Opt(MeLabels)}

TemporalChoices ==
    {NoneValue, EmptyDict} \cup {[peak_hour |-> h] : h \in Opt(HourSamples)}

\* the slices of a gene-keyed rule: detailed when r is in D; else the fixture's
\* metric, with the fixture's gene entry when r is in B and no entry otherwise
GeneSlices(r, g, statuses, samples, st, m, D, B, malformed) ==
    IF r \in D THEN [gene : GeneOpts(g, statuses, malformed), metric : Opt(samples)]
    ELSE {[gene |-> IF r \in B THEN <<GeneRecord(g, st)>> ELSE << >>, metric |-> <<m>>]}

Drd2Slices(D, B, malformed) ==
    IF "drd2_repeat_plays" \in D
    THEN [gene : GeneOpts("DRD2", {"normal", "reduced"}, malformed),
          gene2 : GeneOpts("ANKK1", {"normal", "reduced"}, malformed),
          metric : Opt(RepeatSamples)]
    ELSE {[gene |-> << >>,
           gene2 |-> IF "drd2_repeat_plays" \in B
                     THEN <<GeneRecord("ANKK1", "reduced")>> ELSE << >>,
           metric |-> <<12>>]}

ChronoSlices(D, B) ==
    IF "chronotype_hours" \in D
    THEN [chronotype : ChronotypeChoices, temporal : TemporalChoices]
    ELSE {[chronotype |-> IF "chronotype_hours" \in B
                          THEN [me_score |-> -1, me_label |-> "Evening Tendency"]
                          ELSE NoneValue,
           temporal |-> [peak_hour |-> <<20>>]]}

\* with no detailed rule every subset of the rules has its gene entry; with
\* detailed rules the others have theirs all or none
Backgrounds(D) == IF D = {} THEN SUBSET RuleSet ELSE {{}, RuleSet \ D}

MakeSonic(tempo, valence, valence_std, diversity_index, repeat_ratio, low_valence_pct) ==
    [audio_features |->
        SubDict("tempo", Entry("mean", tempo))
        @@ SubDict("valence", Entry("mean", valence) @@ Entry("std", valence_std))
        @@ Entry("low_valence_pct", low_valence_pct),
     diversity |->
        Entry("diversity_index", diversity_index) @@ Entry("repeat_ratio", repeat_ratio)]

MakeGenome(cyp1a2, comt, bdnf, slc6a4, drd2, ankk1, oprm1, chronotype) ==
    [genes |-> Entry("CYP1A2", cyp1a2) @@ Entry("COMT", comt) @@ Entry("BDNF", bdnf)
               @@ Entry("SLC6A4", slc6a4) @@ Entry("DRD2", drd2)
               @@ Entry("ANKK1", ankk1) @@ Entry("OPRM1", oprm1),
     chronotype |-> chronotype]

----------------------------------------------------------------------------
(* The state machine: a correlator is constructed, then its methods are     *)
(* called in any order, any number of times.                                *)

\* the correlators of the given inputs; malformed: gene entries may lack a status
InitFrom(malformed) ==
    \E D \in SUBSET RuleSet :
      /\ Cardinality(D) <= MaxDetailed
      /\ \E B \in Backgrounds(D) :
         \E c1 \in GeneSlices("caffeine_tempo", "CYP1A2", {"fast", "intermediate", "slow"},
                              TempoSamples, "intermediate", 125, D, B, malformed),
            c2 \in ChronoSlices(D, B),
            c3 \in GeneSlices("comt_valence", "COMT", {"fast", "intermediate", "slow"},
                              ValenceSamples, "fast", 55, D, B, malformed),
            c4 \in GeneSlices("bdnf_diversity", "BDNF", {"normal", "reduced"},
                              DiversitySamples, "normal", 65, D, B, malformed),
            c5 \in GeneSlices("serotonin_emotional_range", "SLC6A4", {"normal", "short"},
                              ValenceStdSamples, "short", 22, D, B, malformed),
            c6 \in Drd2Slices(D, B, malformed),
            c7 \in GeneSlices("oprm1_sad_music", "OPRM1", {"normal", "enhanced"},
                              LowValenceSamples, "enhanced", 20, D, B, malformed) :
           /\ sonic = MakeSonic(c1.metric, c3.metric, c5.metric, c4.metric,
                                c6.metric, c7.metric)
           /\ genome = MakeGenome(c1.gene, c3.gene, c4.gene, c5.gene, c6.gene,
                                  c6.gene2, c7.gene, c2.chronotype)
           /\ temporal = c2.temporal
           /\ op = "init"
           /\ ret = ReturnNone
           /\ tracks = << >>
           /\ genre_diversity = << >>
           /\ tie = "down"
           /\ arguments = EmptyDict

\* inputs of the data model: every gene entry carries a status
Init == InitFrom(FALSE)

\* any input the constructor accepts, gene entries without a status included
InitAnyInput == InitFrom(TRUE)

CallCaffeineTempo ==
    /\ op' = "correlate_caffeine_tempo"
    /\ ret' = correlate_caffeine_tempo(self)
    /\ UNCHANGED <<sonic, genome, temporal, args>>

CallChronotypeHours ==
    /\ op' = "correlate_chronotype_hours"
    /\ ret' = correlate_chronotype_hours(self)
    /\ UNCHANGED <<sonic, genome, temporal, args>>

CallComtValence ==
    /\ op' = "correlate_comt_valence"
    /\ ret' = correlate_comt_valence(self)
    /\ UNCHANGED <<sonic, genome, temporal, args>>

CallBdnfDiversity ==
    /\ op' = "correlate_bdnf_diversity"
    /\ ret' = correlate_bdnf_diversity(self)
    /\ UNCHANGED <<sonic, genome, temporal, args>>

CallSerotoninEmotionalRange ==
    /\ op' = "correlate_serotonin_emotional_range"
    /\ ret' = correlate_serotonin_emotional_range(self)
    /\ UNCHANGED <<sonic, genome, temporal, args>>

CallDrd2RepeatPlays ==
    /\ op' = "correlate_drd2_repeat_plays"
    /\ ret' = correlate_drd2_repeat_plays(self)
    /\ UNCHANGED <<sonic, genome, temporal, args>>

CallOprm1SadMusic ==
    /\ op' = "correlate_oprm1_sad_music"
    /\ ret' = correlate_oprm1_sad_music(self)
    /\ UNCHANGED <<sonic, genome, temporal, args>>

\* a variant of the call that uses up the temporal profile
CallRunAll_consumes_temporal ==
    /\ op' = "run_all"
    /\ ret' = run_all(self)
    /\ temporal' = NoneValue
    /\ UNCHANGED <<sonic, genome, args>>

CallRunAll ==
    /\ op' = "run_all"
    /\ ret' = run_all(self)
    /\ UNCHANGED <<sonic, genome, temporal, args>>

Next ==
    \/ CallCaffeineTempo
    \/ CallChronotypeHours
    \/ CallComtValence
    \/ CallBdnfDiversity
    \/ CallSerotoninEmotionalRange
    \/ CallDrd2RepeatPlays
    \/ CallOprm1SadMusic
    \/ CallRunAll

Spec == Init /\ [][Next]_vars

SpecAnyInput == InitAnyInput /\ [][Next]_vars

----------------------------------------------------------------------------
(* Numbers of the analyzers.  A float of the program is an integer count   *)
(* of hundredths (0.5 is 50, a tempo of 100 BPM is 10000), so round(x, 2)  *)
(* is rounding to the unit.  A decimal tie is settled by the binary value  *)
(* of the float, below or above the tie: tie holds which.                  *)

RECURSIVE Sum(_)
Sum(vals) == IF vals = << >> THEN 0 ELSE vals[1] + Sum(Tail(vals))

\* round(a / n, 2) for a and the result in hundredths
RoundDiv(a, n) ==
    LET q == a \div n
        r == a % n
    IN IF 2 * r < n THEN q
       ELSE IF 2 * r > n THEN q + 1
       ELSE IF tie = "up" THEN q + 1 ELSE q

\* round(statistics.mean(vals), 2)
RoundedMean(vals) == RoundDiv(Sum(vals), Len(vals))

----------------------------------------------------------------------------
(* The temporal analyzer.  A string is the sequence of its parts; a        *)
(* played_at that is not a string has no replace method.                   *)

Str(text) == [kind |-> "str", text |-> text]

NotAString == [kind |-> "int"]

\* bool(played_at): None and the empty string are falsy
TruthyValue(v) == ~IsNone(v) /\ ~(v.kind = "str" /\ v.text = << >>)

\* played_at.replace("Z", "+00:00")
ReplaceZ(text) == [i \in 1..Len(text) |-> IF text[i] = "Z" THEN "+00:00" ELSE text[i]]

HourDigits ==
    <<"00", "01", "02", "03", "04", "05", "06", "07", "08", "09", "10", "11",
      "12", "13", "14", "15", "16", "17", "18", "19", "20", "21", "22", "23">>

UtcOffsets == {"+00:00", "+05:30"}

\* datetime.fromisoformat: a date, optionally followed by T, the hour, minutes
\* and seconds, and an offset; the hour is the one written, no offset applied
fromisoformat(text) ==
    LET IsDate(p) == p = "2026-02-10"
        IsHour(p) == \E i \in 1..24 : HourDigits[i] = p
        HourOf(p) == (CHOOSE i \in 1..24 : HourDigits[i] = p) - 1
    IN IF Len(text) = 1 /\ IsDate(text[1])
       THEN [kind |-> "datetime", hour |-> 0]
       ELSE IF /\ Len(text) \in {4, 5}
               /\ IsDate(text[1])
               /\ text[2] = "T"
               /\ IsHour(text[3])
               /\ text[4] = ":30:00"
               /\ (Len(text) = 5 => text[5] \in UtcOffsets)
       THEN [kind |-> "datetime", hour |-> HourOf(text[3])]
       ELSE Raise("ValueError")

\* the body of the try block: the hour of the track's timestamp, or the exception
ParseHour(played_at) ==
    IF played_at.kind # "str" THEN Raise("AttributeError")
    ELSE fromisoformat(ReplaceZ(played_at.text))

\* a variant whose morning starts at 7
RECURSIVE ScanTracks_morning_from_7(_, _, _)
ScanTracks_morning_from_7(tracks_with_timestamps, i, acc) ==
    IF i > Len(tracks_with_timestamps) THEN acc
    ELSE
    LET track == tracks_with_timestamps[i]
        played_at == Get(track, "played_at", NoneValue)
    IN
    IF ~TruthyValue(played_at) THEN ScanTracks_morning_from_7(tracks_with_timestamps, i + 1, acc)
    ELSE
    LET dt == ParseHour(played_at) IN
    IF dt.kind = "raise" THEN ScanTracks_morning_from_7(tracks_with_timestamps, i + 1, acc)
    ELSE
    LET hour == dt.hour
        counted == [acc EXCEPT !.hour_distribution[hour + 1] = @ + 1,
                               !.valid_tracks = @ + 1]
    IN ScanTracks_morning_from_7(tracks_with_timestamps, i + 1,
           IF 7 <= hour /\ hour <= 11
           THEN [counted EXCEPT !.morning_tracks = Append(@, track)]
           ELSE IF 18 <= hour /\ hour <= 23
           THEN [counted EXCEPT !.evening_tracks = Append(@, track)]
           ELSE counted)

\* a variant that counts a track whose timestamp does not parse at midnight
RECURSIVE ScanTracks_counts_unparsed(_, _, _)
ScanTracks_counts_unparsed(tracks_with_timestamps, i, acc) ==
    IF i > Len(tracks_with_timestamps) THEN acc
    ELSE
    LET track == tracks_with_timestamps[i]
        played_at == Get(track, "played_at", NoneValue)
    IN
    IF ~TruthyValue(played_at) THEN ScanTracks_counts_unparsed(tracks_with_timestamps, i + 1, acc)
    ELSE
    LET dt == ParseHour(played_at)
        hour == IF dt.kind = "raise" THEN 0 ELSE dt.hour
        counted == [acc EXCEPT !.hour_distribution[hour + 1] = @ + 1,
                               !.valid_tracks = @ + 1]
    IN ScanTracks_counts_unparsed(tracks_with_timestamps, i + 1,
           IF 6 <= hour /\ hour <= 11
           THEN [counted EXCEPT !.morning_tracks = Append(@, track)]
           ELSE IF 18 <= hour /\ hour <= 23
           THEN [counted EXCEPT !.evening_tracks = Append(@, track)]
           ELSE counted)

\* the loop over the tracks, from track i on; acc holds hour_distribution,
\* morning_tracks, evening_tracks and valid_tracks
RECURSIVE ScanTracks(_, _, _)
ScanTracks(tracks_with_timestamps, i, acc) ==
    IF i > Len(tracks_with_timestamps) THEN acc
    ELSE
    LET track == tracks_with_timestamps[i]
        played_at == Get(track, "played_at", NoneValue)
    IN
    IF ~TruthyValue(played_at) THEN ScanTracks(tracks_with_timestamps, i + 1, acc)
    ELSE
    LET dt == ParseHour(played_at) IN
    IF dt.kind = "raise" THEN ScanTracks(tracks_with_timestamps, i + 1, acc)
    ELSE
    LET hour == dt.hour
        counted == [acc EXCEPT !.hour_distribution[hour + 1] = @ + 1,
                               !.valid_tracks = @ + 1]
    IN ScanTracks(tracks_with_timestamps, i + 1,
           IF 6 <= hour /\ hour <= 11
           THEN [counted EXCEPT !.morning_tracks = Append(@, track)]
           ELSE IF 18 <= hour /\ hour <= 23
           THEN [counted EXCEPT !.evening_tracks = Append(@, track)]
           ELSE counted)

\* the values of one feature over the tracks that carry it, None left out
RECURSIVE FeatureValues(_, _)
FeatureValues(period_tracks, feature_name) ==
    IF period_tracks = << >> THEN << >>
    ELSE LET af == Get(Head(period_tracks), "audio_features", EmptyDict)
             val == IF Truthy(af) THEN Get(af, feature_name, << >>) ELSE << >>
         IN val \o FeatureValues(Tail(period_tracks), feature_name)

\* a variant that is None as soon as one of the three lists is empty
_compute_period_avg_features_all_observed(period_tracks) ==
    IF period_tracks = << >> THEN NoneValue
    ELSE
    LET tempo_vals == FeatureValues(period_tracks, "tempo")
        energy_vals == FeatureValues(period_tracks, "energy")
        valence_vals == FeatureValues(period_tracks, "valence")
    IN
    IF tempo_vals = << >> \/ energy_vals = << >> \/ valence_vals = << >> THEN NoneValue
    ELSE [tempo |-> RoundedMean(tempo_vals),
          energy |-> RoundedMean(energy_vals),
          valence |-> RoundedMean(valence_vals)]

_compute_period_avg_features(period_tracks) ==
    IF period_tracks = << >> THEN NoneValue
    ELSE
    LET tempo_vals == FeatureValues(period_tracks, "tempo")
        energy_vals == FeatureValues(period_tracks, "energy")
        valence_vals == FeatureValues(period_tracks, "valence")
    IN
    IF tempo_vals = << >> /\ energy_vals = << >> /\ valence_vals = << >> THEN NoneValue
    ELSE [tempo |-> IF tempo_vals # << >> THEN RoundedMean(tempo_vals) ELSE 0,
          energy |-> IF energy_vals # << >> THEN RoundedMean(energy_vals) ELSE 0,
          valence |-> IF valence_vals # << >> THEN RoundedMean(valence_vals) ELSE 0]

\* max(hour_distribution)
MaxCount(hour_distribution) ==
    CHOOSE c \in {hour_distribution[i] : i \in 1..24} :
        \A i \in 1..24 : hour_distribution[i] <= c

\* a variant that reports the peak only when it is not bucket 0
PeakHour_truthy(hour_distribution) ==
    LET first == CHOOSE i \in 1..24 :
                     /\ hour_distribution[i] = MaxCount(hour_distribution)
                     /\ \A j \in 1..(i - 1) : hour_distribution[j] # MaxCount(hour_distribution)
    IN IF first = 1 THEN << >> ELSE <<first - 1>>

\* peak_hour: None, or hour_distribution.index(max(hour_distribution))
PeakHour(hour_distribution) ==
    IF \A i \in 1..24 : hour_distribution[i] = 0 THEN << >>
    ELSE LET first == CHOOSE i \in 1..24 :
                          /\ hour_distribution[i] = MaxCount(hour_distribution)
                          /\ \A j \in 1..(i - 1) : hour_distribution[j] # MaxCount(hour_distribution)
         IN <<first - 1>>

\* a variant whose shift is morning minus evening
CircadianShift_reversed(morning_avg, evening_avg) ==
    IF Truthy(morning_avg) /\ Truthy(evening_avg)
    THEN [tempo_delta |-> RoundDiv(morning_avg.tempo - evening_avg.tempo, 1),
          energy_delta |-> RoundDiv(morning_avg.energy - evening_avg.energy, 1),
          valence_delta |-> RoundDiv(morning_avg.valence - evening_avg.valence, 1)]
    ELSE NoneValue

CircadianShift(morning_avg, evening_avg) ==
    IF Truthy(morning_avg) /\ Truthy(evening_avg)
    THEN [tempo_delta |-> RoundDiv(evening_avg.tempo - morning_avg.tempo, 1),
          energy_delta |-> RoundDiv(evening_avg.energy - morning_avg.energy, 1),
          valence_delta |-> RoundDiv(evening_avg.valence - morning_avg.valence, 1)]
    ELSE NoneValue

\* a variant that reports the length of the input as the total
analyze_temporal_patterns_counts_input(tracks_with_timestamps) ==
    IF tracks_with_timestamps = << >>
    THEN [hour_distribution |-> [i \in 1..24 |-> 0],
          peak_hour |-> << >>,
          morning_hours |-> <<6, 7, 8, 9, 10, 11>>,
          evening_hours |-> <<18, 19, 20, 21, 22, 23>>,
          morning_avg_features |-> NoneValue,
          evening_avg_features |-> NoneValue,
          circadian_shift |-> NoneValue,
          total_tracks_with_timestamps |-> 0]
    ELSE
    LET scanned == ScanTracks(tracks_with_timestamps, 1,
                       [hour_distribution |-> [i \in 1..24 |-> 0],
                        morning_tracks |-> << >>,
                        evening_tracks |-> << >>,
                        valid_tracks |-> 0])
        morning_avg == _compute_period_avg_features(scanned.morning_tracks)
        evening_avg == _compute_period_avg_features(scanned.evening_tracks)
    IN [hour_distribution |-> scanned.hour_distribution,
        peak_hour |-> PeakHour(scanned.hour_distribution),
        morning_hours |-> <<6, 7, 8, 9, 10, 11>>,
        evening_hours |-> <<18, 19, 20, 21, 22, 23>>,
        morning_avg_features |-> morning_avg,
        evening_avg_features |-> evening_avg,
        circadian_shift |-> CircadianShift(morning_avg, evening_avg),
        total_tracks_with_timestamps |-> Len(tracks_with_timestamps)]

analyze_temporal_patterns(tracks_with_timestamps) ==
    IF tracks_with_timestamps = << >>
    THEN [hour_distribution |-> [i \in 1..24 |-> 0],
          peak_hour |-> << >>,
          morning_hours |-> <<6, 7, 8, 9, 10, 11>>,
          evening_hours |-> <<18, 19, 20, 21, 22, 23>>,
          morning_avg_features |-> NoneValue,
          evening_avg_features |-> NoneValue,
          circadian_shift |-> NoneValue,
          total_tracks_with_timestamps |-> 0]
    ELSE
    LET scanned == ScanTracks(tracks_with_timestamps, 1,
                       [hour_distribution |-> [i \in 1..24 |-> 0],
                        morning_tracks |-> << >>,
                        evening_tracks |-> << >>,
                        valid_tracks |-> 0])
        morning_avg == _compute_period_avg_features(scanned.morning_tracks)
        evening_avg == _compute_period_avg_features(scanned.evening_tracks)
    IN [hour_distribution |-> scanned.hour_distribution,
        peak_hour |-> PeakHour(scanned.hour_distribution),
        morning_hours |-> <<6, 7, 8, 9, 10, 11>>,
        evening_hours |-> <<18, 19, 20, 21, 22, 23>>,
        morning_avg_features |-> morning_avg,
        evening_avg_features |-> evening_avg,
        circadian_shift |-> CircadianShift(morning_avg, evening_avg),
        total_tracks_with_timestamps |-> scanned.valid_tracks]

----------------------------------------------------------------------------
(* The track lists the temporal analyzer is called with *)

MaxTimedTracks == 3

SeqsUpTo(S, n) == UNION {[1..k -> S] : k \in 0..n}

Stamp(hh, zone) == Str(<<"2026-02-10", "T", hh, ":30:00">> \o zone)

\* _make_timestamped_track: any of played_at and audio_features may be missing
TimedTrack(played_at, audio_features) ==
    [name |-> "Track", artists |-> <<"Test">>]
    @@ Entry("played_at", played_at) @@ Entry("audio_features", audio_features)

FeaturesA == [tempo |-> <<10000>>, energy |-> <<50>>, valence |-> <<40>>]
FeaturesB == [tempo |-> <<13000>>, energy |-> <<81>>, valence |-> <<60>>]
\* tempo is null and valence is missing: energy alone is observed
FeaturesC == [tempo |-> << >>, energy |-> <<80>>]

\* tracks that are skipped: no played_at, None, a number, text that is no
\* timestamp
SkippedTracks ==
    {TimedTrack(<< >>, <<FeaturesA>>),
     TimedTrack(<<NoneValue>>, <<FeaturesB>>),
     TimedTrack(<<NotAString>>, <<FeaturesA>>),
     TimedTrack(<<Str(<<"not-a-date">>)>>, <<FeaturesB>>)}

\* hours 0..5 and 12..17
NeitherTracks ==
    {TimedTrack(<<Stamp("00", <<"Z">>)>>, <<FeaturesA>>),
     TimedTrack(<<Stamp("05", <<"Z">>)>>, <<FeaturesB>>),
     TimedTrack(<<Stamp("17", <<"+05:30">>)>>, <<FeaturesA>>)}

MorningTracks ==
    {TimedTrack(<<Stamp("08", <<"Z">>)>>, <<FeaturesA>>),
     TimedTrack(<<Stamp("06", <<"Z">>)>>, <<FeaturesB>>),
     TimedTrack(<<Stamp("11", << >>)>>, <<FeaturesC>>)}

EveningTracks ==
    {TimedTrack(<<Stamp("20", <<"Z">>)>>, <<FeaturesB>>),
     TimedTrack(<<Stamp("18", <<"Z">>)>>, <<FeaturesA>>),
     TimedTrack(<<Stamp("23", <<"+00:00">>)>>, << >>)}

TimedTrackSamples == SkippedTracks \cup NeitherTracks \cup MorningTracks \cup EveningTracks

InitTemporal ==
    /\ sonic = EmptyDict
    /\ genome = EmptyDict
    /\ temporal = NoneValue
    /\ op = "init"
    /\ ret = ReturnNone
    /\ tracks \in SeqsUpTo(TimedTrackSamples, MaxTimedTracks)
    /\ genre_diversity = << >>
    /\ tie \in {"down", "up"}
    /\ arguments = EmptyDict

CallAnalyzeTemporalPatterns ==
    /\ op' = "analyze_temporal_patterns"
    /\ ret' = analyze_temporal_patterns(tracks)
    /\ UNCHANGED <<sonic, genome, temporal, args>>

SpecTemporal == InitTemporal /\ [][CallAnalyzeTemporalPatterns]_vars

----------------------------------------------------------------------------
(* The feature aggregator of the sonic profiler.  Feature values are in    *)
(* hundredths (loudness -5.5 dB is -550), duration_ms in milliseconds,     *)
(* avg_duration_sec in seconds, low_valence_pct in tenths of a percent.    *)

KEY_NAMES == <<"C", "C#", "D", "D#", "E", "F", "F#", "G", "G#", "A", "A#", "B">>

\* KEY_NAMES[k]: a negative index counts from the end of the list
KeyName(k) == KEY_NAMES[(k % 12) + 1]

\* the keys of the features dict, in order
FeatureNames ==
    <<"tempo", "energy", "valence", "danceability", "acousticness",
      "instrumentalness", "loudness", "speechiness", "liveness">>

\* the values of one field of audio_features over the tracks that have
\* features, None and missing left out
CollectValues(track_list, field) == FeatureValues(track_list, field)

RECURSIVE InsertAsc(_, _)
InsertAsc(sorted_vals, v) ==
    IF sorted_vals = << >> THEN <<v>>
    ELSE IF v < Head(sorted_vals) THEN <<v>> \o sorted_vals
    ELSE <<Head(sorted_vals)>> \o InsertAsc(Tail(sorted_vals), v)

\* sorted(values)
RECURSIVE Sorted(_)
Sorted(values) ==
    IF values = << >> THEN << >>
    ELSE InsertAsc(Sorted(SubSeq(values, 1, Len(values) - 1)), values[Len(values)])

\* the largest k in lo..hi with k * k <= v
RECURSIVE SqrtBetween(_, _, _)
SqrtBetween(v, lo, hi) ==
    IF lo = hi THEN lo
    ELSE LET mid == (lo + hi + 1) \div 2
         IN IF mid * mid <= v THEN SqrtBetween(v, mid, hi) ELSE SqrtBetween(v, lo, mid - 1)

\* floor(sqrt(v)) for 0 <= v < 2^30
ISqrt(v) == SqrtBetween(v, 0, 32767)

\* the sum of (x_i - x_j)^2 over the pairs i < j: n times the sum of the
\* squared deviations from the mean
SumSquaredDiffs(values) ==
    LET n == Len(values)
        pairs == {p \in (1..n) \X (1..n) : p[1] < p[2]}
        Sq(p) == (values[p[1]] - values[p[2]]) * (values[p[1]] - values[p[2]])
        RECURSIVE Total(_)
        Total(S) == IF S = {} THEN 0
                    ELSE LET p == CHOOSE q \in S : TRUE IN Sq(p) + Total(S \ {p})
    IN Total(pairs)

\* round(statistics.stdev(values), 2): the square root of the sample variance
RoundedStdev(values) ==
    LET n == Len(values)
        num == SumSquaredDiffs(values)
        den == n * (n - 1)
        k == ISqrt(num \div den)
    IN IF (2 * k + 1) * (2 * k + 1) * den < 4 * num THEN k + 1
       ELSE IF (2 * k + 1) * (2 * k + 1) * den > 4 * num THEN k
       ELSE IF tie = "up" THEN k + 1 ELSE k

\* round(statistics.median(values), 2), of the sorted values
RoundedMedian(sorted_vals) ==
    LET n == Len(sorted_vals) IN
    IF n % 2 = 1 THEN RoundDiv(sorted_vals[(n \div 2) + 1], 1)
    ELSE RoundDiv(sorted_vals[n \div 2] + sorted_vals[(n \div 2) + 1], 2)

\* a variant that takes the percentiles from the values as collected
FeatureStats_unsorted_percentiles(values) ==
    LET sorted_vals == Sorted(values)
        n == Len(sorted_vals)
    IN [mean |-> RoundedMean(values),
        median |-> RoundedMedian(sorted_vals),
        std |-> IF n > 1 THEN RoundedStdev(values) ELSE 0,
        p25 |-> RoundDiv(values[(n \div 4) + 1], 1),
        p75 |-> RoundDiv(values[((3 * n) \div 4) + 1], 1),
        min |-> RoundDiv(sorted_vals[1], 1),
        max |-> RoundDiv(sorted_vals[n], 1)]

\* result[feature_name]; Python's index i is index i + 1 here
FeatureStats(values) ==
    LET sorted_vals == Sorted(values)
        n == Len(sorted_vals)
    IN [mean |-> RoundedMean(values),
        median |-> RoundedMedian(sorted_vals),
        std |-> IF n > 1 THEN RoundedStdev(values) ELSE 0,
        p25 |-> RoundDiv(sorted_vals[(n \div 4) + 1], 1),
        p75 |-> RoundDiv(sorted_vals[((3 * n) \div 4) + 1], 1),
        min |-> RoundDiv(sorted_vals[1], 1),
        max |-> RoundDiv(sorted_vals[n], 1)]

CountOf(values, v) == Cardinality({i \in 1..Len(values) : values[i] = v})

\* {KEY_NAMES[k]: round(count / total_keys, 2)} in ascending order of k: of two
\* keys with one name the greater is the one that stays
KeyDistribution(keys) ==
    LET observed == {keys[i] : i \in 1..Len(keys)}
        Last(name) == CHOOSE k \in observed :
                          /\ KeyName(k) = name
                          /\ \A j \in observed : KeyName(j) = name => j <= k
    IN [name \in {KeyName(k) : k \in observed} |->
            RoundDiv(100 * CountOf(keys, Last(name)), Len(keys))]

ModeSplit(modes) ==
    IF modes # << >>
    THEN [major |-> RoundDiv(100 * CountOf(modes, 1), Len(modes)),
          minor |-> RoundDiv(100 * CountOf(modes, 0), Len(modes))]
    ELSE [major |-> 0, minor |-> 0]

\* a variant that leaves mode_split out when no mode was observed
aggregate_audio_features_omits_mode_split(track_list) ==
    IF track_list = << >> THEN EmptyDict
    ELSE
    LET present == {i \in 1..Len(FeatureNames) :
                        CollectValues(track_list, FeatureNames[i]) # << >>}
        keys == CollectValues(track_list, "key")
        modes == CollectValues(track_list, "mode")
        durations == CollectValues(track_list, "duration_ms")
        valence_values == CollectValues(track_list, "valence")
    IN [feature_name \in {FeatureNames[i] : i \in present} |->
            FeatureStats(CollectValues(track_list, feature_name))]
       @@ [key_distribution |-> IF keys # << >> THEN KeyDistribution(keys) ELSE EmptyDict,
           avg_duration_sec |->
               IF durations # << >> THEN RoundDiv(Sum(durations), 1000 * Len(durations))
               ELSE 0,
           low_valence_pct |->
               IF valence_values # << >>
               THEN RoundDiv(1000 * Cardinality({i \in 1..Len(valence_values) :
                                                     valence_values[i] < 35}),
                             Len(valence_values))
               ELSE 0]
       @@ (IF modes # << >> THEN [mode_split |-> ModeSplit(modes)] ELSE EmptyDict)

aggregate_audio_features(track_list) ==
    IF track_list = << >> THEN EmptyDict
    ELSE
    LET present == {i \in 1..Len(FeatureNames) :
                        CollectValues(track_list, FeatureNames[i]) # << >>}
        keys == CollectValues(track_list, "key")
        modes == CollectValues(track_list, "mode")
        durations == CollectValues(track_list, "duration_ms")
        valence_values == CollectValues(track_list, "valence")
    IN [feature_name \in {FeatureNames[i] : i \in present} |->
            FeatureStats(CollectValues(track_list, feature_name))]
       @@ [key_distribution |-> IF keys # << >> THEN KeyDistribution(keys) ELSE EmptyDict,
           mode_split |-> ModeSplit(modes),
           avg_duration_sec |->
               IF durations # << >> THEN RoundDiv(Sum(durations), 1000 * Len(durations))
               ELSE 0,
           low_valence_pct |->
               IF valence_values # << >>
               THEN RoundDiv(1000 * Cardinality({i \in 1..Len(valence_values) :
                                                     valence_values[i] < 35}),
                             Len(valence_values))
               ELSE 0]

----------------------------------------------------------------------------
(* The track lists the feature aggregator is called with *)

MaxFeatureTracks == 4

\* _make_track with the audio_features given, or without the key
FeatureTrack(audio_features) ==
    [id |-> "t1", name |-> "Track t1", artists |-> <<"Artist">>]
    @@ Entry("audio_features", audio_features)

AllFeatures(tempo, energy, valence, loudness, key, mode, duration_ms) ==
    [tempo |-> <<tempo>>, energy |-> <<energy>>, valence |-> <<valence>>,
     danceability |-> <<60>>, acousticness |-> <<30>>, instrumentalness |-> <<5>>,
     loudness |-> <<loudness>>, speechiness |-> <<4>>, liveness |-> <<10>>,
     key |-> <<key>>, mode |-> <<mode>>, duration_ms |-> <<duration_ms>>]

\* no audio_features, an empty one, three full ones, one with tempo and a
\* low valence only (energy null), one with liveness and a key only
FeatureTrackSamples ==
    {FeatureTrack(<< >>),
     FeatureTrack(<<EmptyDict>>),
     FeatureTrack(<<AllFeatures(10000, 50, 30, -600, 0, 1, 210000)>>),
     FeatureTrack(<<AllFeatures(12000, 70, 50, -825, 5, 1, 180500)>>),
     FeatureTrack(<<AllFeatures(14000, 91, 70, -550, 11, 0, 240000)>>),
     FeatureTrack(<<[tempo |-> <<11000>>, energy |-> << >>, valence |-> <<20>>]>>),
     FeatureTrack(<<[liveness |-> <<35>>, key |-> <<-1>>]>>)}

InitAggregate ==
    /\ sonic = EmptyDict
    /\ genome = EmptyDict
    /\ temporal = NoneValue
    /\ op = "init"
    /\ ret = ReturnNone
    /\ tracks \in SeqsUpTo(FeatureTrackSamples, MaxFeatureTracks)
    /\ genre_diversity = << >>
    /\ tie \in {"down", "up"}
    /\ arguments = EmptyDict

CallAggregateAudioFeatures ==
    /\ op' = "aggregate_audio_features"
    /\ ret' = aggregate_audio_features(tracks)
    /\ UNCHANGED <<sonic, genome, temporal, args>>

SpecAggregate == InitAggregate /\ [][CallAggregateAudioFeatures]_vars

----------------------------------------------------------------------------
(* The diversity scorer of the sonic profiler.  The scores it works with   *)
(* are carried in ten-thousandths and reported in hundredths.              *)

\* track.get("artists", []): a list of names, or a single name
PyList(items) == [kind |-> "list", items |-> items]

PyStr(name) == [kind |-> "str", name |-> name]

\* bool(track_artists): the empty list and the empty string are falsy
TruthyArtists(track_artists) ==
    IF track_artists.kind = "list" THEN track_artists.items # << >>
    ELSE track_artists.name # ""

\* a variant that collects every artist of a track
RECURSIVE FirstArtists_every_artist(_)
FirstArtists_every_artist(track_list) ==
    IF track_list = << >> THEN << >>
    ELSE LET track_artists == Get(Head(track_list), "artists", PyList(<< >>))
         IN (IF track_artists.kind = "list" THEN track_artists.items
             ELSE IF track_artists.name # "" THEN <<track_artists.name>>
             ELSE << >>) \o FirstArtists_every_artist(Tail(track_list))

\* artists: the first artist of every track that has one
RECURSIVE FirstArtists(_)
FirstArtists(track_list) ==
    IF track_list = << >> THEN << >>
    ELSE LET track_artists == Get(Head(track_list), "artists", PyList(<< >>))
         IN (IF TruthyArtists(track_artists)
             THEN <<IF track_artists.kind = "list" THEN track_artists.items[1]
                    ELSE track_artists.name>>
             ELSE << >>) \o FirstArtists(Tail(track_list))

\* math.log(n) in millionths, n = 1..6
LogTable == <<0, 693147, 1098612, 1386294, 1609438, 1791759>>

\* round(x / n) for an x of which a is the integer part of an approximation
\* from below that is short by less than slack: a rounding that the missing
\* part can change goes the way the binary value falls
RoundWithin(a, n, slack) ==
    IF tie = "up" THEN (2 * (a + slack) + n) \div (2 * n)
    ELSE (2 * a + n - 1) \div (2 * n)

\* (a * k * k) \div den, taken in two steps that stay within 32 bits
MulDiv(a, k, den) ==
    LET q == (k * a) \div den
        r == (k * a) % den
    IN k * q + (k * r) \div den

\* sum(count * log(count)) over the distinct artists: every occurrence of an
\* artist contributes log(count) once
CountLogSum(artists) ==
    Sum([i \in 1..Len(artists) |-> LogTable[CountOf(artists, artists[i])]])

\* entropy / max_entropy: -sum(p * log(p)) / log(unique_artists) with
\* p = count / total_artists, which is
\* (total * log(total) - sum(count * log(count))) / (total * log(unique))
ArtistEntropy(artists) ==
    LET unique_artists == Cardinality({artists[i] : i \in 1..Len(artists)})
        total_artists == Len(artists)
    IN IF unique_artists > 1 /\ total_artists > 0
       THEN MulDiv(total_artists * LogTable[total_artists] - CountLogSum(artists),
                   100, total_artists * LogTable[unique_artists])
       ELSE 0

RECURSIVE Gcd(_, _)
Gcd(a, b) == IF b = 0 THEN a ELSE Gcd(b, a % b)

RECURSIVE GcdOf(_)
GcdOf(values) == IF values = << >> THEN 0 ELSE Gcd(Head(values), GcdOf(Tail(values)))

\* a variant without the cap at 1.0
CvScore_uncapped(values) ==
    LET g == GcdOf(values)
        scaled == [i \in 1..Len(values) |-> values[i] \div g]
        n == Len(values)
        num == n * SumSquaredDiffs(scaled)
        den == (n - 1) * Sum(scaled) * Sum(scaled)
    IN ISqrt(MulDiv(num % den, 10000, den)) + 10000 * (num \div den)

\* min(std_val / mean_val, 1.0) for len(values) > 1 and mean_val > 0.  The
\* ratio does not change when every value is divided by their common divisor;
\* its square is n * sum((x_i - x_j)^2) / ((n - 1) * sum(x)^2)
CvScore(values) ==
    LET g == GcdOf(values)
        scaled == [i \in 1..Len(values) |-> values[i] \div g]
        n == Len(values)
        num == n * SumSquaredDiffs(scaled)
        den == (n - 1) * Sum(scaled) * Sum(scaled)
    IN IF num >= den THEN 10000 ELSE ISqrt(MulDiv(num, 10000, den))

feature_names == <<"tempo", "energy", "valence", "danceability">>

\* a variant in which a feature also needs values that differ
RECURSIVE CvScores_needs_spread(_, _)
CvScores_needs_spread(track_list, i) ==
    IF i > Len(feature_names) THEN << >>
    ELSE LET values == CollectValues(track_list, feature_names[i])
         IN (IF Len(values) > 1 /\ Sum(values) > 0 /\ SumSquaredDiffs(values) > 0
             THEN <<CvScore(values)>> ELSE << >>)
                \o CvScores_needs_spread(track_list, i + 1)

\* cv_scores, from feature i on
RECURSIVE CvScores(_, _)
CvScores(track_list, i) ==
    IF i > Len(feature_names) THEN << >>
    ELSE LET values == CollectValues(track_list, feature_names[i])
         IN (IF Len(values) > 1 /\ Sum(values) > 0 THEN <<CvScore(values)>> ELSE << >>)
                \o CvScores(track_list, i + 1)

\* track_ids: the truthy track_id values
RECURSIVE TrackIds(_)
TrackIds(track_list) ==
    IF track_list = << >> THEN << >>
    ELSE LET track_id == Get(Head(track_list), "track_id", "")
         IN (IF track_id # "" THEN <<track_id>> ELSE << >>) \o TrackIds(Tail(track_list))

compute_diversity_index(track_list, genre_div) ==
    IF track_list = << >>
    THEN [diversity_index |-> 0,
          artist_entropy_normalized |-> 0,
          feature_variance_score |-> 0,
          repeat_ratio |-> 0,
          unique_artists |-> 0,
          unique_tracks |-> 0,
          total_tracks |-> 0]
    ELSE
    LET artists == FirstArtists(track_list)
        unique_artists == Cardinality({artists[i] : i \in 1..Len(artists)})
        artist_entropy_normalized == ArtistEntropy(artists)
        cv_scores == CvScores(track_list, 1)
        has_features == cv_scores # << >>
        feature_variance_score ==
            IF cv_scores # << >> THEN Sum(cv_scores) \div Len(cv_scores)
            ELSE IF genre_div # << >> THEN 100 * genre_div[1]
            ELSE 0
        track_ids == TrackIds(track_list)
        unique_tracks == Cardinality({track_ids[i] : i \in 1..Len(track_ids)})
        total_tracks == IF track_ids # << >> THEN Len(track_ids) ELSE Len(track_list)
        \* 1 - repeat_ratio
        unrepeated ==
            IF total_tracks > 0 THEN (10000 * unique_tracks) \div total_tracks
            ELSE 10000
        \* diversity_score in hundred-thousandths
        diversity_score ==
            IF has_features
            THEN 4 * artist_entropy_normalized + 4 * feature_variance_score
                     + 2 * unrepeated
            ELSE 6 * artist_entropy_normalized + 2 * feature_variance_score
                     + 2 * unrepeated
    IN [diversity_index |-> RoundWithin(diversity_score, 1000, 14),
        artist_entropy_normalized |-> RoundWithin(artist_entropy_normalized, 100, 1),
        feature_variance_score |-> RoundWithin(feature_variance_score, 100, 2),
        repeat_ratio |->
            IF total_tracks > 0
            THEN RoundDiv(100 * (total_tracks - unique_tracks), total_tracks)
            ELSE 0,
        unique_artists |-> unique_artists,
        unique_tracks |-> unique_tracks,
        total_tracks |-> total_tracks]

----------------------------------------------------------------------------
(* The track lists the diversity scorer is called with *)

MaxDiversityTracks == 3

DiversityTrack(track_id, artists, audio_features) ==
    [name |-> "Track"] @@ Entry("track_id", track_id) @@ Entry("artists", artists)
    @@ Entry("audio_features", audio_features)

FourFeatures(tempo, energy, valence, danceability) ==
    [tempo |-> <<tempo>>, energy |-> <<energy>>, valence |-> <<valence>>,
     danceability |-> <<danceability>>]

\* two tracks with all features, a replay of the first without features, a
\* track without id whose valence is 0, one with an id only, one with an
\* empty id and an empty artist list, one whose artists is a single name, one
\* by a fourth artist
DiversityTrackSamples ==
    {DiversityTrack(<<"t1">>, <<PyList(<<"A">>)>>, <<FourFeatures(10000, 50, 20, 60)>>),
     DiversityTrack(<<"t2">>, <<PyList(<<"B", "A">>)>>, <<FourFeatures(12000, 50, 80, 60)>>),
     DiversityTrack(<<"t1">>, <<PyList(<<"A">>)>>, << >>),
     DiversityTrack(<< >>, <<PyList(<<"C">>)>>, <<[valence |-> <<0>>, energy |-> << >>]>>),
     DiversityTrack(<<"t3">>, << >>, << >>),
     DiversityTrack(<<"">>, <<PyList(<< >>)>>, <<[valence |-> <<0>>]>>),
     DiversityTrack(<<"t4">>, <<PyStr("A")>>, <<EmptyDict>>),
     DiversityTrack(<<"t5">>, <<PyList(<<"D">>)>>, <<[tempo |-> <<14000>>]>>)}

\* genre_diversity: not given, or a score in 0..1
GenreDiversityChoices == {<< >>, <<50>>, <<100>>}

InitDiversity ==
    /\ sonic = EmptyDict
    /\ genome = EmptyDict
    /\ temporal = NoneValue
    /\ op = "init"
    /\ ret = ReturnNone
    /\ tracks \in SeqsUpTo(DiversityTrackSamples, MaxDiversityTracks)
    /\ genre_diversity \in GenreDiversityChoices
    /\ tie \in {"down", "up"}
    /\ arguments = EmptyDict

CallComputeDiversityIndex ==
    /\ op' = "compute_diversity_index"
    /\ ret' = compute_diversity_index(tracks, genre_diversity)
    /\ UNCHANGED <<sonic, genome, temporal, args>>

SpecDiversity == InitDiversity /\ [][CallComputeDiversityIndex]_vars

----------------------------------------------------------------------------
(* The signature of the sonic profiler.  classify_dimension takes its      *)
(* value in hundredths, whatever the dimension.                            *)

\* a variant whose comparisons are value <= bound
classify_dimension_bound_in_lower_bucket(name, value) ==
    LET Pick(bounds, labels) ==
            IF value <= bounds[1] THEN labels[1]
            ELSE IF value <= bounds[2] THEN labels[2]
            ELSE IF value <= bounds[3] THEN labels[3]
            ELSE IF value <= bounds[4] THEN labels[4]
            ELSE labels[5]
    IN IF name = "emotional_tone"
       THEN Pick(<<30, 45, 60, 75>>,
                 <<"Melancholic", "Reflective", "Balanced", "Positive", "Euphoric">>)
       ELSE IF name = "energy_level"
       THEN Pick(<<35, 55, 70, 85>>,
                 <<"Low Energy", "Moderate Energy", "Elevated Energy", "High Energy",
                   "Intense Energy">>)
       ELSE IF name = "musical_complexity"
       THEN Pick(<<20, 40, 60, 80>>,
                 <<"Digital/Electronic", "Electronic-Leaning", "Electronic-Acoustic Mix",
                   "Acoustic-Leaning", "Acoustic/Organic">>)
       ELSE IF name = "tempo_preference"
       THEN Pick(<<10000, 11500, 12800, 14000>>,
                 <<"Slow", "Moderate", "Groovy", "Upbeat", "Fast">>)
       ELSE IF name = "diversity"
       THEN Pick(<<3000, 5000, 6500, 8000>>,
                 <<"Focused", "Consistent", "Balanced", "Eclectic", "Wildly Eclectic">>)
       ELSE "Unknown"

classify_dimension(name, value) ==
    IF name = "emotional_tone"
    THEN IF value < 30 THEN "Melancholic"
         ELSE IF value < 45 THEN "Reflective"
         ELSE IF value < 60 THEN "Balanced"
         ELSE IF value < 75 THEN "Positive"
         ELSE "Euphoric"
    ELSE IF name = "energy_level"
    THEN IF value < 35 THEN "Low Energy"
         ELSE IF value < 55 THEN "Moderate Energy"
         ELSE IF value < 70 THEN "Elevated Energy"
         ELSE IF value < 85 THEN "High Energy"
         ELSE "Intense Energy"
    ELSE IF name = "musical_complexity"
    THEN IF value < 20 THEN "Digital/Electronic"
         ELSE IF value < 40 THEN "Electronic-Leaning"
         ELSE IF value < 60 THEN "Electronic-Acoustic Mix"
         ELSE IF value < 80 THEN "Acoustic-Leaning"
         ELSE "Acoustic/Organic"
    ELSE IF name = "tempo_preference"
    THEN IF value < 10000 THEN "Slow"
         ELSE IF value < 11500 THEN "Moderate"
         ELSE IF value < 12800 THEN "Groovy"
         ELSE IF value < 14000 THEN "Upbeat"
         ELSE "Fast"
    ELSE IF name = "diversity"
    THEN IF value < 3000 THEN "Focused"
         ELSE IF value < 5000 THEN "Consistent"
         ELSE IF value < 6500 THEN "Balanced"
         ELSE IF value < 8000 THEN "Eclectic"
         ELSE "Wildly Eclectic"
    ELSE "Unknown"

\* one dimension of the signature, emitted when its statistic is summarised
SignatureEntry(aggregated, feature, dimension) ==
    IF feature \in DOMAIN aggregated
    THEN LET median == aggregated[feature]["median"]
         IN Entry(dimension, <<[value |-> median,
                                label |-> classify_dimension(dimension, median)]>>)
    ELSE EmptyDict

\* a variant that leaves diversity out when there is no diversity_index
build_signature_without_default(aggregated, diversity) ==
    SignatureEntry(aggregated, "valence", "emotional_tone")
    @@ SignatureEntry(aggregated, "energy", "energy_level")
    @@ SignatureEntry(aggregated, "acousticness", "musical_complexity")
    @@ SignatureEntry(aggregated, "tempo", "tempo_preference")
    @@ (IF "diversity_index" \in DOMAIN diversity
        THEN Entry("diversity",
                   <<[value |-> diversity["diversity_index"],
                      label |-> classify_dimension("diversity",
                                                   100 * diversity["diversity_index"])]>>)
        ELSE EmptyDict)

build_signature(aggregated, diversity) ==
    LET diversity_index == Get(diversity, "diversity_index", 0)
    IN SignatureEntry(aggregated, "valence", "emotional_tone")
       @@ SignatureEntry(aggregated, "energy", "energy_level")
       @@ SignatureEntry(aggregated, "acousticness", "musical_complexity")
       @@ SignatureEntry(aggregated, "tempo", "tempo_preference")
       @@ Entry("diversity",
                <<[value |-> diversity_index,
                   label |-> classify_dimension("diversity", 100 * diversity_index)]>>)

----------------------------------------------------------------------------
(* The values the signature is built from *)

\* the bounds of every dimension, in hundredths
DimensionBounds ==
    {30, 45, 60, 75} \cup {35, 55, 70, 85} \cup {20, 40, 60, 80}
    \cup {10000, 11500, 12800, 14000} \cup {3000, 5000, 6500, 8000}

\* every bound, the hundredth below and above it, and values far from all
ClassifiedValues ==
    {b + d : b \in DimensionBounds, d \in {-1, 0, 1}} \cup {-100, 0, 9000, 20000}

DimensionNames ==
    {"emotional_tone", "energy_level", "musical_complexity", "tempo_preference",
     "diversity", "unknown_dim"}

InitClassify ==
    /\ sonic = EmptyDict
    /\ genome = EmptyDict
    /\ temporal = NoneValue
    /\ op = "init"
    /\ ret = ReturnNone
    /\ tracks = << >>
    /\ genre_diversity = << >>
    /\ tie = "down"
    /\ arguments \in [name : DimensionNames, value : ClassifiedValues]

CallClassifyDimension ==
    /\ op' = "classify_dimension"
    /\ ret' = classify_dimension(arguments.name, arguments.value)
    /\ UNCHANGED <<sonic, genome, temporal, args>>

SpecClassify == InitClassify /\ [][CallClassifyDimension]_vars

\* the summary of one feature, as aggregate_audio_features writes it
Summary(median) == [mean |-> median, median |-> median]

\* every feature of the signature is not summarised, or has one of two medians
AggregatedChoices ==
    LET SummaryChoices(medians) == {<< >>} \cup {<<Summary(m)>> : m \in medians}
    IN {Entry("valence", v) @@ Entry("energy", e) @@ Entry("acousticness", a)
        @@ Entry("tempo", t) @@ [loudness |-> Summary(-600)] :
           v \in SummaryChoices({30, 55}), e \in SummaryChoices({34, 72}),
           a \in SummaryChoices({35, 80}), t \in SummaryChoices({9999, 12500})}
       \cup {EmptyDict}

DiversityChoices ==
    {EmptyDict, [repeat_ratio |-> 0]}
    \cup {[diversity_index |-> d, repeat_ratio |-> 0] : d \in {0, 29, 30, 68, 100}}

InitSignature ==
    /\ sonic = EmptyDict
    /\ genome = EmptyDict
    /\ temporal = NoneValue
    /\ op = "init"
    /\ ret = ReturnNone
    /\ tracks = << >>
    /\ genre_diversity = << >>
    /\ tie = "down"
    /\ arguments \in [aggregated : AggregatedChoices, diversity : DiversityChoices]

CallBuildSignature ==
    /\ op' = "build_signature"
    /\ ret' = build_signature(arguments.aggregated, arguments.diversity)
    /\ UNCHANGED <<sonic, genome, temporal, args>>

SpecSignature == InitSignature /\ [][CallBuildSignature]_vars

----------------------------------------------------------------------------
(* The genome linker.  A path argument is modelled by the file found at    *)
(* it; a JSON list is PyList(items), a JSON object a dict, and "" stands   *)
(* for a gene that is null or empty.                                       *)

MUSIC_RELEVANT_GENES ==
    [CYP1A2 |-> "caffeine_metabolism",
     COMT |-> "dopamine_metabolism",
     BDNF |-> "neuroplasticity",
     SLC6A4 |-> "serotonin_transport",
     ANKK1 |-> "dopamine_receptor",
     DRD2 |-> "dopamine_receptor",
     OPRM1 |-> "opioid_receptor",
     ADORA2A |-> "adenosine_receptor"]

\* no file at the path; a path that open() refuses (a directory); bytes that
\* are not UTF-8; text that is not JSON; a JSON document
FileMissing == [state |-> "missing"]

FileUnreadable == [state |-> "unreadable"]

FileNotUtf8 == [state |-> "not_utf8"]

FileNotJson == [state |-> "not_json"]

JsonFile(data) == [state |-> "json", data |-> data]

\* the value has a get method
IsDict(v) == "kind" \notin DOMAIN v

\* what went wrong instead of a result
Raised(v) == "kind" \in DOMAIN v /\ v.kind = "raise"

\* path.exists(), open() and json.load(f): the document, None for a file
\* that is missing or caught as IOError or JSONDecodeError, or the
\* UnicodeDecodeError that f.read() raises and no except clause names
ReadJson(file) ==
    IF file.state \in {"missing", "unreadable", "not_json"} THEN NoneValue
    ELSE IF file.state = "not_utf8" THEN Raise("UnicodeDecodeError")
    ELSE file.data

\* the loop over the findings, from finding i on
RECURSIVE ExtractGenes(_, _, _)
ExtractGenes(findings, i, gene_data) ==
    IF i > Len(findings) THEN gene_data
    ELSE LET finding == findings[i]
             gene == Get(finding, "gene", "")
         IN IF gene = "" \/ gene \notin DOMAIN MUSIC_RELEVANT_GENES
            THEN ExtractGenes(findings, i + 1, gene_data)
            ELSE IF gene \in DOMAIN gene_data
            THEN ExtractGenes(findings, i + 1, gene_data)
            ELSE ExtractGenes(findings, i + 1,
                     gene_data @@ (gene :> [status |-> Get(finding, "status", "unknown"),
                                            gene |-> gene,
                                            description |-> Get(finding, "description", ""),
                                            title |-> Get(finding, "title", ""),
                                            tier |-> Get(finding, "tier", 0)]))

load_genome_findings(findings_path) ==
    LET data == ReadJson(findings_path) IN
    IF IsNone(data) THEN EmptyDict
    ELSE IF Raised(data) THEN data
    ELSE IF ~IsDict(data) THEN Raise("AttributeError")
    ELSE LET findings == Get(data, "findings", PyList(<< >>)) IN
         IF IsNone(findings) \/ findings.items = << >> THEN EmptyDict
         ELSE ExtractGenes(findings.items, 1, EmptyDict)

\* no path is given as None
NoPath == NoneValue

load_circadian_profile(profile_path) ==
    IF IsNone(profile_path) THEN NoneValue
    ELSE LET data == ReadJson(profile_path) IN
    IF IsNone(data) THEN NoneValue
    ELSE IF Raised(data) THEN data
    ELSE IF ~IsDict(data) THEN Raise("AttributeError")
    ELSE LET chronotype == Get(data, "chronotype_profile", NoneValue) IN
         IF ~Truthy(chronotype) THEN NoneValue
         ELSE [me_score |-> Get(chronotype, "me_score", 0),
               me_label |-> Get(chronotype, "me_label", "Unknown"),
               rhythm_strength |-> Get(chronotype, "rhythm_strength", 0),
               rhythm_label |-> Get(chronotype, "rhythm_label", "Unknown"),
               caffeine_sensitivity |-> Get(chronotype, "caffeine_sensitivity", 0),
               caffeine_sensitivity_label |->
                   Get(chronotype, "caffeine_sensitivity_label", "Unknown")]

\* available.append(rule) under its condition
Available(rule, condition) == IF condition THEN <<rule>> ELSE << >>

\* a variant that offers drd2_repeat_plays for DRD2 only
build_genome_context_drd2_only(findings_path, circadian_path) ==
    LET genes == load_genome_findings(findings_path)
        chronotype == load_circadian_profile(circadian_path)
    IN IF Raised(genes) THEN genes
       ELSE IF Raised(chronotype) THEN chronotype
       ELSE [genes |-> genes,
             chronotype |-> chronotype,
             available_correlations |->
                 Available("caffeine_tempo", "CYP1A2" \in DOMAIN genes)
                 \o Available("chronotype_hours", ~IsNone(chronotype))
                 \o Available("comt_valence", "COMT" \in DOMAIN genes)
                 \o Available("bdnf_diversity", "BDNF" \in DOMAIN genes)
                 \o Available("serotonin_emotional_range", "SLC6A4" \in DOMAIN genes)
                 \o Available("drd2_repeat_plays", "DRD2" \in DOMAIN genes)
                 \o Available("oprm1_sad_music", "OPRM1" \in DOMAIN genes)]

build_genome_context(findings_path, circadian_path) ==
    LET genes == load_genome_findings(findings_path)
        chronotype == load_circadian_profile(circadian_path)
    IN IF Raised(genes) THEN genes
       ELSE IF Raised(chronotype) THEN chronotype
       ELSE [genes |-> genes,
             chronotype |-> chronotype,
             available_correlations |->
                 Available("caffeine_tempo", "CYP1A2" \in DOMAIN genes)
                 \o Available("chronotype_hours", ~IsNone(chronotype))
                 \o Available("comt_valence", "COMT" \in DOMAIN genes)
                 \o Available("bdnf_diversity", "BDNF" \in DOMAIN genes)
                 \o Available("serotonin_emotional_range", "SLC6A4" \in DOMAIN genes)
                 \o Available("drd2_repeat_plays",
                              "DRD2" \in DOMAIN genes \/ "ANKK1" \in DOMAIN genes)
                 \o Available("oprm1_sad_music", "OPRM1" \in DOMAIN genes)]

----------------------------------------------------------------------------
(* The files the linker reads, and the correlator built on its context *)

MaxFindings == 3

Finding(gene, status, tier) ==
    Entry("gene", gene) @@ Entry("status", status) @@ Entry("tier", tier)
    @@ [title |-> "Finding"]

\* two findings of CYP1A2 that differ, genes of the list with and without a
\* status, a gene that is not of the list, a finding without gene and one
\* whose gene is empty
FindingSamples ==
    {Finding(<<"CYP1A2">>, <<"intermediate">>, <<2>>),
     Finding(<<"CYP1A2">>, <<"slow">>, <<1>>),
     Finding(<<"COMT">>, << >>, << >>),
     Finding(<<"ANKK1">>, <<"reduced">>, <<2>>),
     Finding(<<"DRD2">>, <<"normal">>, <<2>>),
     Finding(<<"OPRM1">>, <<"enhanced">>, << >>),
     Finding(<<"APOE">>, <<"e4">>, <<1>>),
     Finding(<< >>, <<"slow">>, <<2>>),
     Finding(<<"">>, <<"fast">>, <<2>>)}

FindingsFiles ==
    {FileMissing, FileUnreadable, FileNotUtf8, FileNotJson,
     JsonFile(EmptyDict), JsonFile([findings |-> NoneValue]), JsonFile(PyList(<< >>))}
    \cup {JsonFile([findings |-> PyList(items)]) :
             items \in SeqsUpTo(FindingSamples, MaxFindings)}

CircadianFiles ==
    {NoPath, FileMissing, FileNotJson, FileNotUtf8,
     JsonFile([chronotype_profile |-> EmptyDict]),
     JsonFile([chronotype_profile |-> [me_score |-> -1, me_label |-> "Evening Tendency",
                                       rhythm_strength |-> 2]]),
     JsonFile([chronotype_profile |-> [me_score |-> 1]])}

InitLinker ==
    /\ sonic = MakeSonic(<<125>>, <<55>>, <<22>>, <<65>>, <<12>>, <<20>>)
    /\ genome = EmptyDict
    /\ temporal \in {NoneValue, [peak_hour |-> <<20>>]}
    /\ op = "init"
    /\ ret = ReturnNone
    /\ tracks = << >>
    /\ genre_diversity = << >>
    /\ tie = "down"
    /\ arguments \in [findings_path : FindingsFiles, circadian_path : CircadianFiles]

CallLoadGenomeFindings ==
    /\ op' = "load_genome_findings"
    /\ ret' = load_genome_findings(arguments.findings_path)
    /\ UNCHANGED <<sonic, genome, temporal, args>>

\* build_genome_context(args.genome, args.circadian); the correlator is
\* constructed on the context it returns
CallBuildGenomeContext ==
    /\ op' = "build_genome_context"
    /\ ret' = build_genome_context(arguments.findings_path, arguments.circadian_path)
    /\ genome' = IF Raised(ret') THEN genome ELSE ret'
    /\ UNCHANGED <<sonic, temporal, args>>

NextLinker ==
    \/ CallLoadGenomeFindings
    \/ CallBuildGenomeContext
    \/ CallRunAll

SpecLinker == InitLinker /\ [][NextLinker]_vars

----------------------------------------------------------------------------
(* The Spotify collector, SpotifyCollector                                 *)
(* (src/src/collectors/spotify_collector.py): _request                     *)
(*                                                                         *)
(* _request is modelled one pass of its while loop at a time.  The frame   *)
(* of the call is in arguments: retry_count, the responses received so     *)
(* far (one per requests.get) and the seconds slept before each retry.     *)
(* The API may answer every request with any response.  The token comes    *)
(* from the authenticator and the pause between requests (50-52) is never  *)
(* negative; neither changes what the loop does.                           *)

max_retries == 3

\* the text of a header that is the digits of an integer; other text, an
\* HTTP date for one, is [kind |-> "date"]
IntText(n) == [kind |-> "digits", value |-> n]

\* a body json() decodes to data; one it does not decode is [kind |-> "text"]
JsonBody(data) == [kind |-> "json", data |-> data]

\* a requests.Response: retry_after is << >> when the header is absent
HTTPResponse(status_code, retry_after, body) ==
    [status_code |-> status_code, headers |-> Entry("Retry-After", retry_after), body |-> body]

\* Response.raise_for_status(): HTTPError for a 4xx or 5xx status
raise_for_status(response) ==
    IF response.status_code >= 400 /\ response.status_code < 600 THEN Raise("HTTPError")
    ELSE ReturnNone

\* Response.json(): the decoded body, or the decoder's error
json(response) ==
    IF response.body.kind = "json" THEN response.body.data
    ELSE Raise("JSONDecodeError")

\* int(response.headers.get("Retry-After", 1)), wait_time and
\* time.sleep(wait_time): int() refuses text that is not an integer and
\* sleep() refuses a negative length
Backoff(response, retry_count) ==
    LET header == Get(response.headers, "Retry-After", IntText(1))
    IN  IF header.kind # "digits" THEN Raise("ValueError")
        ELSE LET wait_time == header.value * 2 ^ (retry_count - 1)
             IN  IF wait_time < 0 THEN Raise("ValueError")
                 ELSE [kind |-> "slept", wait_time |-> wait_time]

Running == "kind" \in DOMAIN ret /\ ret.kind = "running"

\* one pass of the loop on the response the API gives (48-76), and the
\* statement after the loop (79)
RequestPass_reraise_missing(response) ==
    LET retry_count == arguments.retry_count + 1
        received == Append(arguments.received, response)
        backoff == Backoff(response, retry_count)
    IN  IF response.status_code = 429
        THEN IF Raised(backoff)
             THEN /\ ret' = backoff
                  /\ arguments' = [arguments EXCEPT !.retry_count = retry_count, !.received = received]
             ELSE /\ ret' = ret
                  /\ arguments' = [retry_count |-> retry_count, received |-> received,
                                   slept |-> Append(arguments.slept, backoff.wait_time)]
        ELSE /\ ret' = IF Raised(raise_for_status(response)) THEN raise_for_status(response)
                       ELSE json(response)
             /\ arguments' = [arguments EXCEPT !.received = received]

RequestPass(response) ==
    LET retry_count == arguments.retry_count + 1
        received == Append(arguments.received, response)
        backoff == Backoff(response, retry_count)
    IN  IF response.status_code = 429
        THEN IF retry_count > max_retries
             THEN /\ ret' = raise_for_status(response)
                  /\ arguments' = [arguments EXCEPT !.retry_count = retry_count, !.received = received]
             ELSE IF Raised(backoff)
             THEN /\ ret' = backoff
                  /\ arguments' = [arguments EXCEPT !.retry_count = retry_count, !.received = received]
             ELSE /\ ret' = ret
                  /\ arguments' = [retry_count |-> retry_count, received |-> received,
                                   slept |-> Append(arguments.slept, backoff.wait_time)]
        ELSE /\ ret' = IF Raised(raise_for_status(response)) THEN raise_for_status(response)
                       ELSE json(response)
             /\ arguments' = [arguments EXCEPT !.received = received]

\* the responses of the API: a page of items and an empty page, bodies
\* that are not JSON, error statuses, and a 429 whose Retry-After is absent,
\* an integer, a negative integer or an HTTP date
ResponseChoices ==
    LET PageChoices == {[items |-> <<"track">>, total |-> 1], [items |-> << >>]}
        NotJsonBody == [kind |-> "text"]
        DateText == [kind |-> "date"]
    IN  {HTTPResponse(status_code, << >>, JsonBody(data)) : status_code \in {200, 201}, data \in PageChoices}
        \cup {HTTPResponse(status_code, << >>, NotJsonBody) : status_code \in {200, 204, 304}}
        \cup {HTTPResponse(status_code, << >>, JsonBody([error |-> status_code])) : status_code \in {400, 401, 403, 404, 500, 503}}
        \cup {HTTPResponse(502, << >>, NotJsonBody)}
        \cup {HTTPResponse(429, retry_after, JsonBody([error |-> 429])) :
                  retry_after \in {<< >>, <<IntText(0)>>, <<IntText(2)>>, <<IntText(-1)>>, <<DateText>>}}

\* the call has set url, max_retries and retry_count (44-46)
InitRequest ==
    /\ sonic = EmptyDict /\ genome = EmptyDict /\ temporal = NoneValue
    /\ tracks = << >> /\ genre_diversity = << >> /\ tie = "down"
    /\ op = "_request"
    /\ ret = [kind |-> "running"]
    /\ arguments = [retry_count |-> 0, received |-> << >>, slept |-> << >>]

Request ==
    /\ op = "_request"
    /\ Running
    /\ IF arguments.retry_count <= max_retries
       THEN \E response \in ResponseChoices : RequestPass(response)
       ELSE ret' = Raise("RuntimeError") /\ UNCHANGED arguments
    /\ UNCHANGED <<sonic, genome, temporal, op, tracks, genre_diversity, tie>>

SpecRequest == InitRequest /\ [][Request]_vars /\ WF_vars(Request)

----------------------------------------------------------------------------
(* The Spotify collector: collect_full_profile                             *)
(*                                                                         *)
(* What the API answers is in arguments: for each of the five sources the  *)
(* tracks of its items or the exception its fetch raises, the answer of    *)
(* the audio-features endpoint, and whether the cache file can be written. *)
(* A track id is PyStr(name), or None for a local file.                    *)

\* the key of a source in sources_count and the "source" of its tracks, in
\* the order of the fetches (267-310)
source_names ==
    <<[key |-> "recently_played", source |-> "recently_played"],
      [key |-> "top_short", source |-> "top_short_term"],
      [key |-> "top_medium", source |-> "top_medium_term"],
      [key |-> "top_long", source |-> "top_long_term"],
      [key |-> "saved_library", source |-> "saved_library"]>>

\* get_recently_played, get_top_tracks, get_saved_tracks: the track dicts
\* built from the items, or what _request or an item raised
GetTracks(source, fetched) ==
    IF Raised(fetched) THEN fetched
    ELSE PyList([i \in 1..Len(fetched.items) |->
                    [track_id |-> fetched.items[i].id,
                     artists |-> fetched.items[i].artists,
                     source |-> source]])

\* the five try blocks from block i on: collected_tracks.extend(...)
RECURSIVE CollectedTracks(_, _)
CollectedTracks(fetches, i) ==
    IF i > Len(source_names) THEN << >>
    ELSE LET got == GetTracks(source_names[i].source, fetches[source_names[i].key])
         IN  (IF Raised(got) THEN << >> ELSE got.items) \o CollectedTracks(fetches, i + 1)

\* sources_count: len() of what a source returned, 0 in its except block
SourcesCount(fetches) ==
    [key \in {source_names[i].key : i \in 1..Len(source_names)} |->
        IF Raised(fetches[key]) THEN 0 ELSE Len(fetches[key].items)]

\* the loop over collected_tracks with seen_ids (316-321)
RECURSIVE Deduplicate(_, _)
Deduplicate_keeps_every_track(collected_tracks, seen_ids) == collected_tracks

Deduplicate(collected_tracks, seen_ids) ==
    IF collected_tracks = << >> THEN << >>
    ELSE LET track == Head(collected_tracks)
         IN  IF track.track_id \notin seen_ids
             THEN <<track>> \o Deduplicate(Tail(collected_tracks), seen_ids \cup {track.track_id})
             ELSE Deduplicate(Tail(collected_tracks), seen_ids)

\* get_audio_features: {} without a request for no ids; ",".join(batch)
\* raises TypeError on an id that is None; then what _request raises, or the
\* features of the ids the API has features for, keyed by the id's text
get_audio_features(track_ids, answer) ==
    IF track_ids = << >> THEN EmptyDict
    ELSE IF \E i \in 1..Len(track_ids) : IsNone(track_ids[i]) THEN Raise("TypeError")
    ELSE IF Raised(answer) THEN answer
    ELSE [track_id \in {track_ids[i].name : i \in 1..Len(track_ids)} \cap answer.ids |-> [tempo |-> 120]]

\* collected_at, the time of the call, is left out; unique_artists, the
\* sorted list of a set, is the set
collect_full_profile(fetches, answer, cache) ==
    LET collected_tracks == CollectedTracks(fetches, 1)
        unique_tracks == Deduplicate(collected_tracks, {})
        track_ids == [i \in 1..Len(unique_tracks) |-> unique_tracks[i].track_id]
        audio_features == get_audio_features(track_ids, answer)
        Merged(track) ==
            track @@ ("audio_features" :> Get(audio_features, track.track_id.name, NoneValue))
        unique_artists ==
            UNION {{unique_tracks[i].artists[j] : j \in 1..Len(unique_tracks[i].artists)} :
                      i \in 1..Len(unique_tracks)}
    IN  IF Raised(audio_features) THEN audio_features
        ELSE IF cache # "writable" THEN Raise("OSError")
        ELSE [sources |-> SourcesCount(fetches),
              tracks |-> [i \in 1..Len(unique_tracks) |-> Merged(unique_tracks[i])],
              unique_artists |-> unique_artists,
              total_unique_tracks |-> Len(unique_tracks),
              total_unique_artists |-> Cardinality(unique_artists),
              tracks_with_features |-> Cardinality(DOMAIN audio_features)]

MaxSourceTracks == 2

\* the tracks of the API's items: two tracks with an id and a local file
ItemChoices ==
    {[id |-> PyStr("a"), artists |-> <<"A">>],
     [id |-> PyStr("b"), artists |-> <<"B", "A">>],
     [id |-> NoneValue, artists |-> <<"L">>]}

\* what a fetch gives: recently played and the saved library up to
\* MaxSourceTracks items, a top list at most one item with an id
FetchChoices(key) ==
    {Raise("HTTPError")}
    \cup IF key \in {"recently_played", "saved_library"}
         THEN {PyList(items) : items \in SeqsUpTo(ItemChoices, MaxSourceTracks)}
         ELSE {PyList(items) : items \in SeqsUpTo({item \in ItemChoices : ~IsNone(item.id)}, 1)}

InitCollector ==
    /\ sonic = EmptyDict /\ genome = EmptyDict /\ temporal = NoneValue
    /\ tracks = << >> /\ genre_diversity = << >> /\ tie = "down"
    /\ op = "init"
    /\ ret = ReturnNone
    /\ \E recently_played \in FetchChoices("recently_played"), top_short \in FetchChoices("top_short"),
          top_medium \in FetchChoices("top_medium"), top_long \in FetchChoices("top_long"),
          saved_library \in FetchChoices("saved_library"),
          answer \in {Raise("HTTPError"), [ids |-> {"a"}]},
          cache \in {"writable", "unwritable"} :
          arguments = [fetches |-> [recently_played |-> recently_played, top_short |-> top_short,
                                    top_medium |-> top_medium, top_long |-> top_long,
                                    saved_library |-> saved_library],
                       answer |-> answer, cache |-> cache]

CallCollectFullProfile ==
    /\ op' = "collect_full_profile"
    /\ ret' = collect_full_profile(arguments.fetches, arguments.answer, arguments.cache)
    /\ UNCHANGED <<sonic, genome, temporal, args>>

SpecCollector == InitCollector /\ [][CallCollectFullProfile]_vars

----------------------------------------------------------------------------
(* Vocabulary of the properties *)

Genes == Get(genome, "genes", EmptyDict)

GeneMethods ==
    {"correlate_caffeine_tempo", "correlate_comt_valence", "correlate_bdnf_diversity",
     "correlate_serotonin_emotional_range", "correlate_drd2_repeat_plays",
     "correlate_oprm1_sad_music"}

\* the gene keys a gene-keyed rule requires (any one of them)
RequiredGenes(m) ==
    CASE m = "correlate_caffeine_tempo" -> {"CYP1A2"}
      [] m = "correlate_comt_valence" -> {"COMT"}
      [] m = "correlate_bdnf_diversity" -> {"BDNF"}
      [] m = "correlate_serotonin_emotional_range" -> {"SLC6A4"}
      [] m = "correlate_drd2_repeat_plays" -> {"DRD2", "ANKK1"}
      [] m = "correlate_oprm1_sad_music" -> {"OPRM1"}

\* the metric a gene-keyed rule judges, 0 when the profile does not carry it
AudioFeatures == Get(sonic, "audio_features", EmptyDict)

Metric(m) ==
    CASE m = "correlate_caffeine_tempo" ->
             Get(Get(AudioFeatures, "tempo", EmptyDict), "mean", 0)
      [] m = "correlate_comt_valence" ->
             Get(Get(AudioFeatures, "valence", EmptyDict), "mean", 0)
      [] m = "correlate_bdnf_diversity" ->
             Get(Get(sonic, "diversity", EmptyDict), "diversity_index", 0)
      [] m = "correlate_serotonin_emotional_range" ->
             Get(Get(AudioFeatures, "valence", EmptyDict), "std", 0)
      [] m = "correlate_drd2_repeat_plays" ->
             Get(Get(sonic, "diversity", EmptyDict), "repeat_ratio", 0)
      [] m = "correlate_oprm1_sad_music" ->
             Get(AudioFeatures, "low_valence_pct", 0)

\* the id of the result a method builds
RuleId(m) ==
    CASE m = "correlate_caffeine_tempo" -> "caffeine_tempo"
      [] m = "correlate_chronotype_hours" -> "chronotype_hours"
      [] m = "correlate_comt_valence" -> "comt_valence"
      [] m = "correlate_bdnf_diversity" -> "bdnf_diversity"
      [] m = "correlate_serotonin_emotional_range" -> "serotonin_emotional_range"
      [] m = "correlate_drd2_repeat_plays" -> "drd2_repeat_plays"
      [] m = "correlate_oprm1_sad_music" -> "oprm1_sad_music"

\* rule-definition order, by result id
RuleOrder ==
    <<"caffeine_tempo", "chronotype_hours", "comt_valence", "bdnf_diversity",
      "serotonin_emotional_range", "drd2_repeat_plays", "oprm1_sad_music">>

OrderIndex(id) == CHOOSE i \in 1..Len(RuleOrder) : RuleOrder[i] = id

ConfidenceRank(c) ==
    CASE c = "moderate" -> 0
      [] c = "weak" -> 1
      [] c = "speculative" -> 2
      [] OTHER -> 3

ReturnedList == op = "run_all" /\ ret.kind = "list"

Ids(items) == [i \in 1..Len(items) |-> items[i].id]

\* the gene entry a gene-keyed rule reads: DRD2 before ANKK1 for drd2_repeat_plays
UsedGene(m) ==
    IF m = "correlate_drd2_repeat_plays"
    THEN (IF "DRD2" \in DOMAIN Genes THEN "DRD2" ELSE "ANKK1")
    ELSE CHOOSE g \in RequiredGenes(m) : TRUE

\* the rule's gene entry is present and carries a status
HasStatus(m) == UsedGene(m) \in DOMAIN Genes /\ "status" \in DOMAIN Genes[UsedGene(m)]

StatusOf(m) == Genes[UsedGene(m)]["status"]

\* the expected-range table of each gene-keyed rule, in the units of the model
RangeTable(m) ==
    CASE m = "correlate_caffeine_tempo" ->
             [fast |-> <<125, 140>>, intermediate |-> <<110, 125>>, slow |-> <<95, 115>>]
      [] m = "correlate_comt_valence" ->
             [fast |-> <<55, 75>>, intermediate |-> <<40, 60>>, slow |-> <<35, 55>>]
      [] m = "correlate_bdnf_diversity" ->
             [normal |-> <<55, 85>>, reduced |-> <<30, 55>>]
      [] m = "correlate_serotonin_emotional_range" ->
             [normal |-> <<15, 25>>, short |-> <<25, 40>>]
      [] m = "correlate_drd2_repeat_plays" ->
             [normal |-> <<0, 15>>, reduced |-> <<20, 100>>]
      [] m = "correlate_oprm1_sad_music" ->
             [normal |-> <<15, 25>>, enhanced |-> <<25, 40>>]

\* the wide range of a status the table does not know
DefaultRange(m) ==
    IF m = "correlate_caffeine_tempo" THEN <<0, 999>> ELSE <<0, 100>>

\* the templates of each gene-keyed rule: in range, above max, below min
Templates(m) ==
    CASE m = "correlate_caffeine_tempo" ->
             <<"Textbook case!", "Plot twist", "Unexpected chill">>
      [] m = "correlate_comt_valence" ->
             <<"Dopamine economics confirmed", "Suspiciously happy playlist",
               "Darker than expected">>
      [] m = "correlate_bdnf_diversity" ->
             <<"Neuroplasticity wins", "Genre omnivore alert", "Comfort zone specialist">>
      [] m = "correlate_serotonin_emotional_range" ->
             <<"Emotional volatility confirmed", "Extreme emotional whiplash",
               "Surprisingly stable">>
      [] m = "correlate_drd2_repeat_plays" ->
             <<"Dopamine reward loop detected", "Obsessive replay behavior",
               "Novelty hunter">>
      [] m = "correlate_oprm1_sad_music" ->
             <<"Sweet sadness confirmed", "Melancholy addict", "Avoiding the void">>

\* the template range membership asks for: value v against the range rng
TemplateFor(m, rng, v) ==
    IF rng[1] <= v /\ v <= rng[2] THEN Templates(m)[1]
    ELSE IF v > rng[2] THEN Templates(m)[2]
    ELSE Templates(m)[3]

\* the range the rule's table gives the status of the entry it reads
SelectedRange(m) ==
    IF StatusOf(m) \in DOMAIN RangeTable(m) THEN RangeTable(m)[StatusOf(m)]
    ELSE DefaultRange(m)

\* the hour window of the chronotype category, by the sign of me_score
ChronoWindow ==
    LET me_score == Get(Get(genome, "chronotype", NoneValue), "me_score", 0) IN
    IF me_score > 0 THEN <<6, 14>>
    ELSE IF me_score < 0 THEN <<16, 23>>
    ELSE <<10, 20>>

\* the rules that return None on a zero metric
SentinelMethods == GeneMethods \ {"correlate_drd2_repeat_plays"}

----------------------------------------------------------------------------
(* C1: the list run_all() returns is ordered by confidence rank            *)
(* moderate(0) < weak(1) < speculative(2): the rank of every entry is <=   *)
(* the rank of the entry after it, so no speculative entry precedes a      *)
(* moderate or weak one.                                                   *)
C1_SortedByConfidence ==
    ReturnedList =>
        \A i \in 1..(Len(ret.items) - 1) :
            ConfidenceRank(ret.items[i].confidence)
                <= ConfidenceRank(ret.items[i + 1].confidence)

\* all seven rules fired: the moderate entry, appended second, comes first
C1_Witness ==
    /\ ReturnedList
    /\ Len(ret.items) = 7
    /\ ret.items[1].id = "chronotype_hours"
    /\ ret.items[2].id = "caffeine_tempo"

(* C2: entries of run_all()'s list that share a confidence level appear in *)
(* rule-definition order, whichever subset of the rules fired.             *)
C2_TiesInRuleOrder ==
    ReturnedList =>
        \A i, j \in 1..Len(ret.items) :
            (i < j /\ ret.items[i].confidence = ret.items[j].confidence)
                => OrderIndex(ret.items[i].id) < OrderIndex(ret.items[j].id)

\* a proper subset of the speculative rules fired, after a weak one
C2_Witness ==
    /\ ReturnedList
    /\ Ids(ret.items) = <<"caffeine_tempo", "comt_valence",
                          "serotonin_emotional_range", "oprm1_sad_music">>

(* C3: a gene-keyed rule returns None, without raising, whenever none of   *)
(* its required gene keys is in the genes mapping, whatever the sonic and  *)
(* temporal profiles hold.                                                 *)
C3_NoGeneNoResult ==
    \A m \in GeneMethods :
        (op = m /\ RequiredGenes(m) \cap DOMAIN Genes = {}) => ret = ReturnNone

\* the gene is absent while the profile carries a metric the rule would judge
C3_Witness ==
    /\ op = "correlate_oprm1_sad_music"
    /\ "OPRM1" \notin DOMAIN Genes
    /\ Metric("correlate_oprm1_sad_music") = 41
    /\ ret = ReturnNone

(* C4: correlate_chronotype_hours returns None if the genome context has   *)
(* no chronotype record (the entry is None or an empty mapping), if no     *)
(* temporal profile was supplied (None or an empty mapping), or if the     *)
(* profile's peak_hour is null; in every other case, peak_hour 0 included, *)
(* it returns a result with id chronotype_hours and confidence moderate.   *)
C4_ChronotypePreconditions ==
    op = "correlate_chronotype_hours" =>
        IF \/ ~Truthy(Get(genome, "chronotype", NoneValue))
           \/ ~Truthy(temporal)
           \/ Get(temporal, "peak_hour", << >>) = << >>
        THEN ret = ReturnNone
        ELSE /\ ret.kind = "result"
             /\ ret.id = "chronotype_hours"
             /\ ret.confidence = "moderate"

\* a peak at midnight still gives a result
C4_Witness ==
    /\ op = "correlate_chronotype_hours"
    /\ Truthy(temporal)
    /\ Get(temporal, "peak_hour", << >>) = <<0>>
    /\ ret.kind = "result"

FiringIds == {RuleId(methods[i]) : i \in {k \in 1..Len(methods) : Call(methods[k], self).kind = "result"}}

(* C6: run_all() returns exactly one entry for each rule that returns a    *)
(* result when called alone and none for the others: at most 7 entries of  *)
(* pairwise distinct ids; the empty list when the genes mapping is empty   *)
(* and there is no chronotype; the single caffeine_tempo entry when CYP1A2 *)
(* is the only gene and the tempo mean is not zero.                        *)
C6_OneEntryPerFiringRule ==
    op = "run_all" =>
        /\ ret.kind = "list"
        /\ Len(ret.items) <= 7
        /\ \A i, j \in 1..Len(ret.items) : ret.items[i].id = ret.items[j].id => i = j
        /\ {ret.items[i].id : i \in 1..Len(ret.items)} = FiringIds
        /\ \A i \in 1..Len(ret.items) :
               \E k \in 1..Len(methods) : ret.items[i] = Call(methods[k], self)
        /\ (DOMAIN Genes = {} /\ ~Truthy(Get(genome, "chronotype", NoneValue)))
               => ret.items = << >>
        /\ (/\ DOMAIN Genes = {"CYP1A2"}
            /\ ~Truthy(Get(genome, "chronotype", NoneValue))
            /\ Metric("correlate_caffeine_tempo") # 0)
               => Ids(ret.items) = <<"caffeine_tempo">>

\* CYP1A2 is the only gene, the profile carries every metric: one entry
C6_Witness ==
    /\ op = "run_all"
    /\ DOMAIN Genes = {"CYP1A2"}
    /\ Metric("correlate_comt_valence") # 0
    /\ ret.kind = "list"
    /\ Ids(ret.items) = <<"caffeine_tempo">>

(* C7: a gene status that the rule's expected-range table does not know    *)
(* does not make the rule fail: unless the metric is the zero sentinel of  *)
(* the rule, it returns a result judged against the rule's wide default    *)
(* range (0..999 for tempo, 0..1 for valence mean, valence std and repeat  *)
(* ratio, 0..100 for diversity index and low-valence percentage), and the  *)
(* result's gene_status is the unexpected status unchanged.                *)
C7_UnknownStatusDefaultRange ==
    \A m \in GeneMethods :
        (op = m /\ HasStatus(m) /\ StatusOf(m) \notin DOMAIN RangeTable(m)) =>
            IF m \in SentinelMethods /\ Metric(m) = 0
            THEN ret = ReturnNone
            ELSE /\ ret.kind = "result"
                 /\ ret.gene_status = StatusOf(m)
                 /\ ret.verdict = TemplateFor(m, DefaultRange(m), Metric(m))

\* an unknown CYP1A2 status and a tempo above the default range's 999
C7_Witness ==
    /\ op = "correlate_caffeine_tempo"
    /\ HasStatus("correlate_caffeine_tempo")
    /\ StatusOf("correlate_caffeine_tempo") = "unknown"
    /\ Metric("correlate_caffeine_tempo") = 1000
    /\ ret.kind = "result"
    /\ ret.gene_status = "unknown"
    /\ ret.verdict = "Plot twist"

\* the verdict chronotype_hours gives the same chronotype at peak hour h
ChronoVerdictAt(h) ==
    correlate_chronotype_hours([self EXCEPT !.temporal = [peak_hour |-> <<h>>]]).verdict

(* C8 (as stated): every rule that returns a result, chronotype_hours      *)
(* included, gives the in-range template iff min <= metric <= max for the  *)
(* range of the subject's status or category, and otherwise a template     *)
(* that differs between a metric above max and a metric below min.         *)
C8_DirectionalVerdictEveryRule ==
    /\ \A m \in GeneMethods :
           (op = m /\ ret.kind = "result")
               => ret.verdict = TemplateFor(m, SelectedRange(m), Metric(m))
    /\ (op = "correlate_chronotype_hours" /\ ret.kind = "result") =>
           /\ (ret.verdict = "Clockwork precision!")
                  <=> (ChronoWindow[1] <= temporal.peak_hour[1]
                       /\ temporal.peak_hour[1] <= ChronoWindow[2])
           /\ temporal.peak_hour[1] > ChronoWindow[2]
                  => \A h \in HourSamples :
                         h < ChronoWindow[1] => ChronoVerdictAt(h) # ret.verdict

(* C8 (amended): each of the six gene-keyed rules that returns a result    *)
(* gives the in-range template iff min <= metric <= max (bounds inclusive) *)
(* for the range of the subject's status, and otherwise one template for a *)
(* metric above max and another for a metric below min; chronotype_hours   *)
(* gives its in-range template iff min <= peak hour <= max for the window  *)
(* of its category and otherwise one and the same out-of-range template,   *)
(* whether the peak is above max or below min.                             *)
C8_VerdictByRangeMembership ==
    /\ \A m \in GeneMethods :
           (op = m /\ ret.kind = "result")
               => /\ ret.verdict = TemplateFor(m, SelectedRange(m), Metric(m))
                  /\ Templates(m)[2] # Templates(m)[3]
    /\ (op = "correlate_chronotype_hours" /\ ret.kind = "result") =>
           ret.verdict =
               IF ChronoWindow[1] <= temporal.peak_hour[1]
                  /\ temporal.peak_hour[1] <= ChronoWindow[2]
               THEN "Clockwork precision!"
               ELSE "Rebellion detected"

\* a fast COMT and a valence mean on the lower bound 0.55: in range
C8_Witness ==
    /\ op = "correlate_comt_valence"
    /\ HasStatus("correlate_comt_valence")
    /\ StatusOf("correlate_comt_valence") = "fast"
    /\ Metric("correlate_comt_valence") = 55
    /\ ret.kind = "result"
    /\ ret.verdict = "Dopamine economics confirmed"

(* C9: an exception raised while one rule is evaluated does not leave      *)
(* run_all(): whenever some rule returns a result when called alone,       *)
(* run_all() returns a list, and the list holds the result of every such   *)
(* rule.                                                                   *)
C9_FailureConfinedToRule ==
    (op = "run_all" /\ FiringIds # {}) =>
        /\ ret.kind = "list"
        /\ FiringIds \subseteq {ret.items[i].id : i \in 1..Len(ret.items)}

(* C10: correlate_drd2_repeat_plays reads the DRD2 entry whenever DRD2 is  *)
(* in the genes mapping, ANKK1 present or not, and the ANKK1 entry only    *)
(* when DRD2 is absent; the result's gene and gene_status, and the range   *)
(* its verdict is judged against, are those of the entry read.             *)
C10_Drd2Preferred ==
    (op = "correlate_drd2_repeat_plays" /\ {"DRD2", "ANKK1"} \cap DOMAIN Genes # {}) =>
        LET used == IF "DRD2" \in DOMAIN Genes THEN "DRD2" ELSE "ANKK1"
            rng == IF Genes[used]["status"] \in {"normal", "reduced"}
                   THEN RangeTable("correlate_drd2_repeat_plays")[Genes[used]["status"]]
                   ELSE DefaultRange("correlate_drd2_repeat_plays")
        IN /\ ret.kind = "result"
           /\ ret.gene = used
           /\ ret.gene_status = Genes[used]["status"]
           /\ ret.verdict = TemplateFor("correlate_drd2_repeat_plays", rng,
                                        Metric("correlate_drd2_repeat_plays"))

\* both entries are present with different statuses: DRD2's is reported
C10_Witness ==
    /\ op = "correlate_drd2_repeat_plays"
    /\ {"DRD2", "ANKK1"} \subseteq DOMAIN Genes
    /\ Genes["DRD2"]["status"] = "normal"
    /\ Genes["ANKK1"]["status"] = "reduced"
    /\ ret.kind = "result"
    /\ ret.gene = "DRD2"
    /\ ret.gene_status = "normal"

\* the chronotype record without its label: me_score alone, or the default label
\* alone when the record has no me_score (an empty record reads as no record)
ScoreOnly(chronotype) ==
    IF "me_score" \in DOMAIN chronotype THEN [me_score |-> chronotype["me_score"]]
    ELSE [me_label |-> "Unknown"]

(* C11: chronotype_hours selects its hour window from the sign of me_score *)
(* alone: Morning 6..14 for me_score > 0, Evening 16..23 for me_score < 0,  *)
(* Intermediate 10..20 for me_score 0 or a record without me_score; the    *)
(* peak hour is in range iff window.min <= peak_hour <= window.max; and    *)
(* the verdict is the one the rule gives with every gene entry removed and *)
(* the label dropped from the chronotype record.                           *)
C11_WindowBySignOfMeScore ==
    (op = "correlate_chronotype_hours" /\ ret.kind = "result") =>
        LET chronotype == genome["chronotype"]
            peak == temporal["peak_hour"][1]
            category ==
                IF "me_score" \notin DOMAIN chronotype THEN "Intermediate"
                ELSE IF chronotype["me_score"] > 0 THEN "Morning"
                ELSE IF chronotype["me_score"] < 0 THEN "Evening"
                ELSE "Intermediate"
            window ==
                CASE category = "Morning" -> <<6, 14>>
                  [] category = "Evening" -> <<16, 23>>
                  [] category = "Intermediate" -> <<10, 20>>
            bare == [self EXCEPT !.genome = [genes |-> EmptyDict,
                                             chronotype |-> ScoreOnly(chronotype)]]
        IN /\ ret.expected_ranges[category].min = window[1]
           /\ ret.expected_ranges[category].max = window[2]
           /\ (ret.verdict = "Clockwork precision!")
                  <=> (window[1] <= peak /\ peak <= window[2])
           /\ ret.verdict = correlate_chronotype_hours(bare).verdict

\* a record labelled Morning with a negative me_score, peak 20: the Evening
\* window decides, gene entries being present
C11_Witness ==
    /\ op = "correlate_chronotype_hours"
    /\ ret.kind = "result"
    /\ Get(genome["chronotype"], "me_label", "Unknown") = "Morning Tendency"
    /\ Get(genome["chronotype"], "me_score", 0) < 0
    /\ temporal["peak_hour"] = <<20>>
    /\ DOMAIN Genes # {}
    /\ ret.verdict = "Clockwork precision!"

\* what the method named m returns on the correlator as it is now
CallNow(m) == IF m = "run_all" THEN run_all(self) ELSE Call(m, self)

----------------------------------------------------------------------------
(* Vocabulary of the properties of the temporal analyzer *)

TemporalReturned == op = "analyze_temporal_patterns"

\* the track carries a played_at that parses
Parses(track) ==
    /\ "played_at" \in DOMAIN track
    /\ TruthyValue(track["played_at"])
    /\ ParseHour(track["played_at"]).kind = "datetime"

HourOfTrack(track) == ParseHour(track["played_at"]).hour

InHours(track, lo, hi) == Parses(track) /\ lo <= HourOfTrack(track) /\ HourOfTrack(track) <= hi

IsMorning(track) == InHours(track, 6, 11)

IsEvening(track) == InHours(track, 18, 23)

\* hours 0..5 and 12..17
IsNeither(track) == Parses(track) /\ ~IsMorning(track) /\ ~IsEvening(track)

NotNeither(track) == ~IsNeither(track)

\* how many tracks of the list satisfy the test
CountIf(list, Test(_)) == Cardinality({k \in 1..Len(list) : Test(list[k])})

(* C13: after analyze_temporal_patterns, peak_hour is null iff             *)
(* hour_distribution is all zeros, which is iff no track of the input has  *)
(* a played_at that parses (empty input included); otherwise peak_hour is  *)
(* an hour in 0..23 whose bucket holds the maximum count, a peak at        *)
(* midnight being reported as 0.                                           *)
C13_PeakNullIffAllZero ==
    TemporalReturned =>
        /\ (ret.peak_hour = << >>) <=> (\A i \in 1..24 : ret.hour_distribution[i] = 0)
        /\ (ret.peak_hour = << >>) <=> (\A k \in 1..Len(tracks) : ~Parses(tracks[k]))
        /\ ret.peak_hour # << >> =>
               /\ ret.peak_hour[1] \in 0..23
               /\ \A i \in 1..24 :
                      ret.hour_distribution[i] <= ret.hour_distribution[ret.peak_hour[1] + 1]
               /\ ret.hour_distribution[ret.peak_hour[1] + 1] > 0

\* most tracks were played in the hour after midnight: the peak is 0, not null
C13_Witness ==
    /\ TemporalReturned
    /\ Len(tracks) = 3
    /\ CountIf(tracks, LAMBDA t : InHours(t, 0, 0)) = 2
    /\ CountIf(tracks, IsEvening) = 1
    /\ ret.peak_hour = <<0>>

(* C14: circadian_shift is non-null iff morning_avg_features and           *)
(* evening_avg_features are both non-null; when non-null, each of          *)
(* tempo_delta, energy_delta and valence_delta is the evening average      *)
(* minus the morning average of that feature as reported, to 2 decimals:   *)
(* tracks at hours 8 and 20 with tempo 100 and 130 give tempo_delta 30.    *)
C14_ShiftIsEveningMinusMorning ==
    TemporalReturned =>
        /\ ~IsNone(ret.circadian_shift)
               <=> (~IsNone(ret.morning_avg_features) /\ ~IsNone(ret.evening_avg_features))
        /\ ~IsNone(ret.circadian_shift) =>
               /\ ret.circadian_shift.tempo_delta
                      = ret.evening_avg_features.tempo - ret.morning_avg_features.tempo
               /\ ret.circadian_shift.energy_delta
                      = ret.evening_avg_features.energy - ret.morning_avg_features.energy
               /\ ret.circadian_shift.valence_delta
                      = ret.evening_avg_features.valence - ret.morning_avg_features.valence

\* the tracks at hours 8 and 20: tempo 100 and 130, energy 0.5 and 0.81
C14_Witness ==
    /\ TemporalReturned
    /\ tracks = <<TimedTrack(<<Stamp("08", <<"Z">>)>>, <<FeaturesA>>),
                  TimedTrack(<<Stamp("20", <<"Z">>)>>, <<FeaturesB>>)>>
    /\ ret.circadian_shift = [tempo_delta |-> 3000, energy_delta |-> 31, valence_delta |-> 20]

\* bucket h of the histogram holds the number of entries h of hours
CountsHours(hour_distribution, hours) ==
    \A h \in 0..23 :
        hour_distribution[h + 1] = Cardinality({k \in DOMAIN hours : hours[k] = h})

(* C15: every track whose timestamp parses is counted in exactly one       *)
(* hourly bucket, that of its hour; the morning average is the average     *)
(* over the tracks of hours 6..11 and the evening average the one over the *)
(* tracks of hours 18..23, no track being in both; tracks at hours 0..5    *)
(* and 12..17 change the histogram only: morning_avg_features,             *)
(* evening_avg_features and circadian_shift are what they are for the list *)
(* without those tracks.                                                   *)
C15_BucketsAndPeriods ==
    TemporalReturned =>
        /\ CountsHours(ret.hour_distribution,
                       [k \in 1..Len(tracks) |->
                           IF Parses(tracks[k]) THEN HourOfTrack(tracks[k]) ELSE -1])
        /\ \A k \in 1..Len(tracks) : ~(IsMorning(tracks[k]) /\ IsEvening(tracks[k]))
        /\ ret.morning_avg_features
               = _compute_period_avg_features(SelectSeq(tracks, IsMorning))
        /\ ret.evening_avg_features
               = _compute_period_avg_features(SelectSeq(tracks, IsEvening))
        /\ LET without == analyze_temporal_patterns(SelectSeq(tracks, NotNeither))
           IN /\ ret.morning_avg_features = without.morning_avg_features
              /\ ret.evening_avg_features = without.evening_avg_features
              /\ ret.circadian_shift = without.circadian_shift

\* a track at 06:30, one at 17:30 and one at 18:30: the shift is that of the
\* first and the last alone
C15_Witness ==
    /\ TemporalReturned
    /\ Len(tracks) = 3
    /\ Parses(tracks[1]) /\ HourOfTrack(tracks[1]) = 6
    /\ Parses(tracks[2]) /\ HourOfTrack(tracks[2]) = 17
    /\ Parses(tracks[3]) /\ HourOfTrack(tracks[3]) = 18
    /\ ret.hour_distribution[18] = 1
    /\ ret.circadian_shift = [tempo_delta |-> -3000, energy_delta |-> -31, valence_delta |-> -20]

(* C16: a track with a missing or unparsable played_at is skipped without  *)
(* failing the run: analyze_temporal_patterns returns, for every list,     *)
(* what it returns for the list with all such tracks removed, in every     *)
(* field; a list of such tracks only gives the result of the empty list.   *)
C16_SkippedTracksChangeNothing ==
    TemporalReturned =>
        /\ ret = analyze_temporal_patterns(SelectSeq(tracks, Parses))
        /\ (\A k \in 1..Len(tracks) : ~Parses(tracks[k]))
               => ret = analyze_temporal_patterns(<< >>)

\* a morning track between a track with text for a timestamp and one with none
C16_Witness ==
    /\ TemporalReturned
    /\ Len(tracks) = 3
    /\ "played_at" \in DOMAIN tracks[1] /\ tracks[1]["played_at"] = Str(<<"not-a-date">>)
    /\ IsMorning(tracks[2])
    /\ "played_at" \notin DOMAIN tracks[3]
    /\ ret.total_tracks_with_timestamps = 1
    /\ ~IsNone(ret.morning_avg_features)

----------------------------------------------------------------------------
(* Vocabulary of the properties of the feature aggregator *)

AggregateReturned == op = "aggregate_audio_features"

\* the track has audio features with a non-null value for the field
Carries(track, field) ==
    /\ "audio_features" \in DOMAIN track
    /\ field \in DOMAIN track["audio_features"]
    /\ track["audio_features"][field] # << >>

\* the track has audio features at all
HasFeatures(track) ==
    "audio_features" \in DOMAIN track /\ DOMAIN track["audio_features"] # {}

FeatureNameSet == {FeatureNames[i] : i \in 1..Len(FeatureNames)}

\* v is the element at index i (from 0) of values in ascending order
IsAtRank(values, i, v) ==
    /\ \E k \in 1..Len(values) : values[k] = v
    /\ Cardinality({k \in 1..Len(values) : values[k] < v}) <= i
    /\ i < Cardinality({k \in 1..Len(values) : values[k] <= v})

(* C17: aggregate_audio_features returns the empty mapping for the empty   *)
(* list; for a non-empty list each of the 9 feature names is a key of the  *)
(* result iff at least one track carries a non-null value for it, tracks   *)
(* without audio features contributing to no statistic, while              *)
(* key_distribution, mode_split, avg_duration_sec and low_valence_pct are  *)
(* always present, mode_split being {major: 0.0, minor: 0.0} when no mode  *)
(* value was observed.                                                     *)
C17_FeatureKeysIffObserved ==
    AggregateReturned =>
        IF tracks = << >> THEN DOMAIN ret = {}
        ELSE /\ \A f \in FeatureNameSet :
                    (f \in DOMAIN ret) <=> (\E k \in 1..Len(tracks) : Carries(tracks[k], f))
             /\ DOMAIN ret \ FeatureNameSet
                    = {"key_distribution", "mode_split", "avg_duration_sec", "low_valence_pct"}
             /\ (\A k \in 1..Len(tracks) : ~Carries(tracks[k], "mode"))
                    => ret["mode_split"] = [major |-> 0, minor |-> 0]
             /\ (\E k \in 1..Len(tracks) : HasFeatures(tracks[k]))
                    => ret = aggregate_audio_features(SelectSeq(tracks, HasFeatures))

\* a track with tempo and valence only and a track without features: two
\* feature keys, no energy, and a mode_split of zeros
C17_Witness ==
    /\ AggregateReturned
    /\ Len(tracks) = 2
    /\ ~HasFeatures(tracks[2])
    /\ DOMAIN ret \cap FeatureNameSet = {"tempo", "valence"}
    /\ ret["mode_split"] = [major |-> 0, minor |-> 0]
    /\ ret["key_distribution"] = EmptyDict

(* C18: for every feature aggregate_audio_features summarises, over its    *)
(* n >= 1 values, n // 4 and 3n // 4 are valid indices of the sorted       *)
(* values, p25 and p75 are the elements at those indices, and              *)
(* min <= p25 <= median <= p75 <= max.                                     *)
C18_PercentilesOrdered ==
    AggregateReturned =>
        \A f \in FeatureNameSet \cap DOMAIN ret :
            LET values == CollectValues(tracks, f)
                n == Len(values)
                stats == ret[f]
            IN /\ n >= 1
               /\ (n \div 4) \in 0..(n - 1)
               /\ ((3 * n) \div 4) \in 0..(n - 1)
               /\ IsAtRank(values, n \div 4, stats.p25)
               /\ IsAtRank(values, (3 * n) \div 4, stats.p75)
               /\ stats.min <= stats.p25
               /\ stats.p25 <= stats.median
               /\ stats.median <= stats.p75
               /\ stats.p75 <= stats.max

\* four tempos, given out of order: 140, 100, 110, 120
C18_Witness ==
    /\ AggregateReturned
    /\ CollectValues(tracks, "tempo") = <<14000, 10000, 11000, 12000>>
    /\ ret["tempo"].p25 = 11000
    /\ ret["tempo"].median = 11500
    /\ ret["tempo"].p75 = 14000

----------------------------------------------------------------------------
(* The diversity scorer *)

DiversityReturned == op = "compute_diversity_index"

AllZeroDiversity ==
    [diversity_index |-> 0,
     artist_entropy_normalized |-> 0,
     feature_variance_score |-> 0,
     repeat_ratio |-> 0,
     unique_artists |-> 0,
     unique_tracks |-> 0,
     total_tracks |-> 0]

\* the first artist of a track, as a set: empty when the track names none
FirstArtistOf(track) ==
    IF "artists" \notin DOMAIN track THEN {}
    ELSE IF track["artists"].kind = "str"
    THEN (IF track["artists"].name = "" THEN {} ELSE {track["artists"].name})
    ELSE IF track["artists"].items = << >> THEN {}
    ELSE {track["artists"].items[1]}

DistinctFirstArtists == UNION {FirstArtistOf(tracks[i]) : i \in 1..Len(tracks)}

TracksWithArtist == {i \in 1..Len(tracks) : FirstArtistOf(tracks[i]) # {}}

\* some feature of the four has two observed values with a positive mean
SomeFeatureQualifies ==
    \E f \in {"tempo", "energy", "valence", "danceability"} :
        LET observed == {i \in 1..Len(tracks) : Carries(tracks[i], f)}
        IN /\ Cardinality(observed) > 1
           /\ \E i \in observed : tracks[i]["audio_features"][f][1] > 0

\* C19: for every non-empty track list, with genre_diversity absent or in
\* 0..1, diversity_index is an integer in 0..100 on either weighting path;
\* for the empty list the result is the all-zero record.
C19_DiversityIndexInRange ==
    DiversityReturned =>
        /\ tracks # << >> => ret.diversity_index \in 0..100
        /\ tracks = << >> => ret = AllZeroDiversity

\* the index reaches 100 on the path weighted by the features
C19_Witness ==
    /\ DiversityReturned
    /\ SomeFeatureQualifies
    /\ ret.diversity_index = 100

\* C20: artist_entropy_normalized is 0.0 when the tracks have fewer than 2
\* distinct first artists, 1.0 when the N > 1 tracks that name an artist have
\* N pairwise-distinct first artists, and within 0..1 otherwise;
\* unique_artists is the number of distinct first artists.
C20_ArtistEntropy ==
    DiversityReturned =>
        /\ ret.unique_artists = Cardinality(DistinctFirstArtists)
        /\ Cardinality(DistinctFirstArtists) < 2 => ret.artist_entropy_normalized = 0
        /\ (/\ Cardinality(TracksWithArtist) > 1
            /\ Cardinality(DistinctFirstArtists) = Cardinality(TracksWithArtist))
               => ret.artist_entropy_normalized = 100
        /\ ret.artist_entropy_normalized \in 0..100

\* three tracks by two first artists: the entropy is strictly between 0 and 1
C20_Witness ==
    /\ DiversityReturned
    /\ Cardinality(TracksWithArtist) = 3
    /\ ret.unique_artists = 2
    /\ ret.artist_entropy_normalized \notin {0, 100}

\* the track carries a track_id
HasTrackId(track) == "track_id" \in DOMAIN track /\ track["track_id"] # ""

DistinctTrackIds == {tracks[i]["track_id"] : i \in {j \in 1..Len(tracks) : HasTrackId(tracks[j])}}

TracksWithoutId == {i \in 1..Len(tracks) : ~HasTrackId(tracks[i])}

\* hundredths is round(num / den, 2), whichever way a tie goes
IsRoundedRatio(hundredths, num, den) ==
    /\ 2 * (hundredths * den - 100 * num) <= den
    /\ 2 * (100 * num - hundredths * den) <= den

\* C21: repeat_ratio = 1 - unique_tracks / total_tracks, where every track
\* without a track_id counts as a unique track of its own: total_tracks is
\* the number of tracks and unique_tracks the number of distinct ids plus the
\* number of tracks without id (so the ratio is 0 when no track has an id).
C21_TracksWithoutIdCountAsUnique ==
    (DiversityReturned /\ tracks # << >>) =>
        /\ ret.total_tracks = Len(tracks)
        /\ ret.unique_tracks = Cardinality(DistinctTrackIds) + Cardinality(TracksWithoutId)
        /\ IsRoundedRatio(ret.repeat_ratio, ret.total_tracks - ret.unique_tracks,
                          ret.total_tracks)

----------------------------------------------------------------------------
(* The signature *)

\* feature of the summary and the dimension built from it
SignatureSources ==
    {<<"valence", "emotional_tone">>, <<"energy", "energy_level">>,
     <<"acousticness", "musical_complexity">>, <<"tempo", "tempo_preference">>}

BucketLabels ==
    [emotional_tone |-> <<"Melancholic", "Reflective", "Balanced", "Positive", "Euphoric">>,
     energy_level |-> <<"Low Energy", "Moderate Energy", "Elevated Energy", "High Energy",
                        "Intense Energy">>,
     musical_complexity |-> <<"Digital/Electronic", "Electronic-Leaning",
                              "Electronic-Acoustic Mix", "Acoustic-Leaning",
                              "Acoustic/Organic">>,
     tempo_preference |-> <<"Slow", "Moderate", "Groovy", "Upbeat", "Fast">>,
     diversity |-> <<"Focused", "Consistent", "Balanced", "Eclectic", "Wildly Eclectic">>]

BucketBounds ==
    [emotional_tone |-> <<30, 45, 60, 75>>,
     energy_level |-> <<35, 55, 70, 85>>,
     musical_complexity |-> <<20, 40, 60, 80>>,
     tempo_preference |-> <<10000, 11500, 12800, 14000>>,
     diversity |-> <<3000, 5000, 6500, 8000>>]

\* the bucket of a label, 1 to 5
BucketOf(name, label) == CHOOSE b \in 1..5 : BucketLabels[name][b] = label

\* C23: for each of the 5 dimensions every value gets one of the
\* dimension's 5 labels, a value equal to a bound gets the upper bucket
\* (tempo_preference 100 Moderate, diversity 30 Consistent, emotional_tone
\* 0.3 Reflective), a larger value never gets a lower bucket; any other
\* name gets Unknown.
C23_BucketsWithStrictBounds ==
    op = "classify_dimension" =>
        LET name == arguments.name
            value == arguments.value
        IN IF name \in DOMAIN BucketLabels
           THEN /\ \E b \in 1..5 : ret = BucketLabels[name][b]
                /\ BucketOf(name, ret)
                       = 1 + Cardinality({i \in 1..4 : BucketBounds[name][i] <= value})
                /\ \A larger \in {v \in ClassifiedValues : v >= value} :
                       BucketOf(name, classify_dimension(name, larger))
                           >= BucketOf(name, ret)
           ELSE ret = "Unknown"

\* tempo_preference 100 is Moderate
C23_Witness ==
    /\ op = "classify_dimension"
    /\ arguments = [name |-> "tempo_preference", value |-> 10000]
    /\ ret = "Moderate"

----------------------------------------------------------------------------
(* The genome linker *)

\* the findings file is missing, is not JSON (as text or as bytes), or holds
\* an empty findings list
NoFindingsToLoad(file) ==
    \/ file.state \in {"missing", "not_json", "not_utf8"}
    \/ /\ file.state = "json"
       /\ IsDict(file.data)
       /\ "findings" \in DOMAIN file.data
       /\ ~IsNone(file.data["findings"])
       /\ file.data["findings"].items = << >>

\* the file holds a JSON object with a list of findings
HoldsFindings(file) ==
    /\ file.state = "json"
    /\ IsDict(file.data)
    /\ "findings" \in DOMAIN file.data
    /\ ~IsNone(file.data["findings"])

\* the places of the findings of gene g
FindingsOf(items, g) == {i \in 1..Len(items) : "gene" \in DOMAIN items[i] /\ items[i]["gene"] = g}

FirstOf(places) == CHOOSE i \in places : \A j \in places : i <= j

\* the record of a finding
RecordOf(finding) ==
    [status |-> IF "status" \in DOMAIN finding THEN finding["status"] ELSE "unknown",
     gene |-> finding["gene"],
     description |-> IF "description" \in DOMAIN finding THEN finding["description"] ELSE "",
     title |-> IF "title" \in DOMAIN finding THEN finding["title"] ELSE "",
     tier |-> IF "tier" \in DOMAIN finding THEN finding["tier"] ELSE 0]

AllowList == {"CYP1A2", "COMT", "BDNF", "SLC6A4", "ANKK1", "DRD2", "OPRM1", "ADORA2A"}

\* C24: load_genome_findings returns only genes of the 8-gene allow-list,
\* each with the record of its first finding in the list (later findings of
\* the gene, findings of other genes and findings without gene change
\* nothing); a missing file, malformed JSON or an empty findings list gives
\* the empty mapping, and build_genome_context (called on the findings
\* alone) then gives genes = {} and available_correlations = [] without
\* raising.
C24_FirstOccurrenceOrEmptyContext ==
    LET file == arguments.findings_path IN
    /\ (op = "load_genome_findings" /\ HoldsFindings(file)) =>
           LET items == file.data["findings"].items IN
           /\ ~Raised(ret)
           /\ DOMAIN ret = {g \in AllowList : FindingsOf(items, g) # {}}
           /\ \A g \in DOMAIN ret : ret[g] = RecordOf(items[FirstOf(FindingsOf(items, g))])
    /\ (op = "load_genome_findings" /\ NoFindingsToLoad(file)) => ret = EmptyDict
    /\ (/\ op = "build_genome_context"
        /\ NoFindingsToLoad(file)
        /\ arguments.circadian_path = NoPath) =>
           /\ ~Raised(ret)
           /\ ret.genes = EmptyDict
           /\ ret.available_correlations = << >>

\* the gene precondition of every rule, on the genes and chronotype of a context
Precondition(rule, context) ==
    CASE rule = "caffeine_tempo" -> "CYP1A2" \in DOMAIN context.genes
      [] rule = "chronotype_hours" -> ~IsNone(context.chronotype)
      [] rule = "comt_valence" -> "COMT" \in DOMAIN context.genes
      [] rule = "bdnf_diversity" -> "BDNF" \in DOMAIN context.genes
      [] rule = "serotonin_emotional_range" -> "SLC6A4" \in DOMAIN context.genes
      [] rule = "drd2_repeat_plays" ->
             "DRD2" \in DOMAIN context.genes \/ "ANKK1" \in DOMAIN context.genes
      [] rule = "oprm1_sad_music" -> "OPRM1" \in DOMAIN context.genes

Offered(context) ==
    {context.available_correlations[i] : i \in 1..Len(context.available_correlations)}

\* a correlator was constructed on a built context
OnBuiltContext == "available_correlations" \in DOMAIN genome

\* C28: for every findings and circadian input, a rule id is in the built
\* context's available_correlations exactly when its gene precondition holds
\* (chronotype non-null for chronotype_hours), and the id of every result
\* that run_all() returns on that context is in available_correlations.
C28_AvailableCoversResults ==
    /\ (op = "build_genome_context" /\ ~Raised(ret)) =>
           /\ Offered(ret) \subseteq RuleSet
           /\ \A rule \in RuleSet : rule \in Offered(ret) <=> Precondition(rule, ret)
    /\ (op = "run_all" /\ OnBuiltContext) =>
           /\ ret.kind = "list"
           /\ \A i \in 1..Len(ret.items) : ret.items[i].id \in Offered(genome)

\* run_all returns a drd2_repeat_plays result for a context with ANKK1 only
C28_Witness ==
    /\ op = "run_all"
    /\ OnBuiltContext
    /\ "DRD2" \notin DOMAIN genome.genes
    /\ \E i \in 1..Len(ret.items) : ret.items[i].id = "drd2_repeat_plays"
    /\ \E i \in 1..Len(ret.items) : ret.items[i].id = "chronotype_hours"

----------------------------------------------------------------------------
(* The weighting of the diversity index *)

\* the values observed of a feature, in hundredths
Observed(f) ==
    LET carrying == SelectSeq([i \in 1..Len(tracks) |-> i], LAMBDA i : Carries(tracks[i], f))
    IN [k \in 1..Len(carrying) |-> tracks[carrying[k]]["audio_features"][f][1]]

\* at least 2 values are observed and their mean is > 0
Qualifies(f) == Len(Observed(f)) >= 2 /\ Sum(Observed(f)) > 0

QualifyingFeatures ==
    SelectSeq(<<"tempo", "energy", "valence", "danceability">>, Qualifies)

\* the mean, in ten-thousandths, of the capped std/mean ratios of the
\* qualifying features
MeanCappedRatio ==
    Sum([k \in 1..Len(QualifyingFeatures) |-> CvScore(Observed(QualifyingFeatures[k]))])
        \div Len(QualifyingFeatures)

\* index is round(100 * score) for the score of the weights (in tenths) on
\* the three components, which are reported rounded to hundredths
IsWeighted(index, w_entropy, w_feature, w_repeat) ==
    LET score == 10 * (w_entropy * ret.artist_entropy_normalized
                       + w_feature * ret.feature_variance_score
                       + w_repeat * (100 - ret.repeat_ratio))
    IN 100 * index - score \in -100..100

\* C25: a feature among tempo, energy, valence, danceability qualifies iff
\* at least 2 values are observed and their mean is > 0 (identical values
\* qualify with score 0).  If one qualifies, feature_variance_score is the
\* mean of the qualifying std/mean ratios capped at 1.0 and the weights are
\* 0.4 / 0.4 / 0.2; if none does, the feature score is genre_diversity (0.0
\* when absent) and the weights are 0.6 / 0.2 / 0.2.
C25_WeightingByQualifyingFeature ==
    (DiversityReturned /\ tracks # << >>) =>
        IF QualifyingFeatures # << >>
        THEN /\ 100 * ret.feature_variance_score - MeanCappedRatio \in -50..52
             /\ IsWeighted(ret.diversity_index, 4, 4, 2)
        ELSE /\ ret.feature_variance_score
                    = (IF genre_diversity = << >> THEN 0 ELSE genre_diversity[1])
             /\ IsWeighted(ret.diversity_index, 6, 2, 2)

\* one track played twice: every feature qualifies with score 0, and the
\* genre_diversity of 1.0 is not used
C25_Witness ==
    /\ DiversityReturned
    /\ Len(QualifyingFeatures) = 4
    /\ genre_diversity = <<100>>
    /\ ret.feature_variance_score = 0
    /\ ret.diversity_index = 10

----------------------------------------------------------------------------
(* The period averages and the histogram *)

PeriodFeatures == {"tempo", "energy", "valence"}

\* some track of the period carries the feature
ObservedIn(InPeriod(_), f) ==
    \E k \in 1..Len(tracks) : InPeriod(tracks[k]) /\ Carries(tracks[k], f)

\* the average of a period is null iff no track of the period carries any
\* of the three features; otherwise it has the three fields, 0 for a feature
\* that no track of the period carries
PeriodAverageOk(avg, InPeriod(_)) ==
    /\ IsNone(avg) <=> ~\E f \in PeriodFeatures : ObservedIn(InPeriod, f)
    /\ ~IsNone(avg) =>
           /\ DOMAIN avg = PeriodFeatures
           /\ \A f \in PeriodFeatures : ~ObservedIn(InPeriod, f) => avg[f] = 0

\* C26: a period average (morning or evening) is null iff the period has no
\* track or no track of the period carries any of tempo, energy, valence;
\* otherwise it is a record with all three fields, a feature never observed
\* in the period being 0.0, and entering circadian_shift as 0.0.
C26_PeriodAverageNullOrZeroFilled ==
    TemporalReturned =>
        /\ PeriodAverageOk(ret.morning_avg_features, IsMorning)
        /\ PeriodAverageOk(ret.evening_avg_features, IsEvening)
        /\ (~IsNone(ret.morning_avg_features) /\ ~IsNone(ret.evening_avg_features)) =>
               /\ ~IsNone(ret.circadian_shift)
               /\ ~ObservedIn(IsMorning, "tempo") =>
                      ret.circadian_shift.tempo_delta = ret.evening_avg_features.tempo
               /\ ~ObservedIn(IsMorning, "valence") =>
                      ret.circadian_shift.valence_delta = ret.evening_avg_features.valence
               /\ ~ObservedIn(IsEvening, "energy") =>
                      ret.circadian_shift.energy_delta = 0 - ret.morning_avg_features.energy

\* a morning whose only track has an energy and no tempo or valence, and an
\* evening with all three
C26_Witness ==
    /\ TemporalReturned
    /\ CountIf(tracks, IsMorning) = 1
    /\ ret.morning_avg_features = [tempo |-> 0, energy |-> 80, valence |-> 0]
    /\ ~IsNone(ret.evening_avg_features)
    /\ ret.circadian_shift.tempo_delta = 13000

\* C27: hour_distribution has exactly 24 non-negative integer entries, their
\* sum is total_tracks_with_timestamps, and that total is at most the number
\* of input tracks.
C27_HistogramSumsToTotal ==
    TemporalReturned =>
        /\ DOMAIN ret.hour_distribution = 1..24
        /\ \A i \in 1..24 : ret.hour_distribution[i] \in Nat
        /\ Sum(ret.hour_distribution) = ret.total_tracks_with_timestamps
        /\ ret.total_tracks_with_timestamps <= Len(tracks)

\* three tracks of which one is skipped
C27_Witness ==
    /\ TemporalReturned
    /\ Len(tracks) = 3
    /\ ret.total_tracks_with_timestamps = 2
    /\ \E i \in 1..24 : ret.hour_distribution[i] = 2

----------------------------------------------------------------------------
(* Properties of _request *)

Received == arguments.received

LastResponse == Received[Len(Received)]

\* a response the caller can use: no error status and a body that decodes
Successful(response) == response.status_code < 400 /\ response.body.kind = "json"

RateLimited(response) == response.status_code = 429

\* what holds of a call of _request at every pass and at its end
RequestOutcome ==
    /\ Len(Received) <= max_retries + 1
    /\ \A i \in 1..(Len(Received) - 1) : RateLimited(Received[i])
    /\ ret # Raise("RuntimeError")
    /\ Running => Len(Received) <= max_retries
    /\ ~Running =>
          /\ Len(Received) >= 1
          /\ Successful(LastResponse) => ret = LastResponse.body.data
          /\ (~RateLimited(LastResponse) /\ LastResponse.status_code >= 400) => ret = Raise("HTTPError")
          /\ (RateLimited(LastResponse) /\ Len(Received) = max_retries + 1) => ret = Raise("HTTPError")
          /\ IsDict(ret) => Successful(LastResponse)

\* C30: a call of _request ends, and it ends within 4 requests (1 initial
\* and 3 retries): a request is sent again only after a 429; the first
\* response that is not a 429 ends the call, with its decoded body when it
\* is successful and with HTTPError when its status is an error; the 4th
\* 429 in a row ends it with HTTPError; the RuntimeError after the loop is
\* never raised.
C30_RequestEndsWithinFourRequests == []RequestOutcome /\ <>(~Running)

\* the call gave up on the 4th 429 in a row
C30_Witness ==
    /\ op = "_request"
    /\ ~Running
    /\ Len(Received) = max_retries + 1
    /\ \A i \in 1..Len(Received) : RateLimited(Received[i])
    /\ ret = Raise("HTTPError")

----------------------------------------------------------------------------
(* Properties of collect_full_profile *)

ProfileReturned == op = "collect_full_profile" /\ IsDict(ret)

Fetches == arguments.fetches

\* the tracks of the sources whose fetch did not raise, one source after
\* the other in the order of the claim
TracksOf(key, source) ==
    IF Raised(Fetches[key]) THEN << >>
    ELSE [i \in 1..Len(Fetches[key].items) |->
            [track_id |-> Fetches[key].items[i].id,
             artists |-> Fetches[key].items[i].artists,
             source |-> source]]

Concatenation ==
    TracksOf("recently_played", "recently_played") \o TracksOf("top_short", "top_short_term")
    \o TracksOf("top_medium", "top_medium_term") \o TracksOf("top_long", "top_long_term")
    \o TracksOf("saved_library", "saved_library")

\* the positions of the concatenation that hold the first track of an id
FirstOccurrences ==
    {i \in 1..Len(Concatenation) :
        \A j \in 1..(i - 1) : Concatenation[j].track_id # Concatenation[i].track_id}

\* the position in the concatenation of the k-th first occurrence
PositionOf(k) ==
    CHOOSE i \in FirstOccurrences : Cardinality({j \in FirstOccurrences : j <= i}) = k

SameTrack(kept, track) ==
    /\ kept.track_id = track.track_id
    /\ kept.artists = track.artists
    /\ kept.source = track.source

\* C29: the tracks of a returned profile have pairwise distinct track_id;
\* they are the first occurrence of each track_id in the concatenation of
\* recently played, top short, medium and long term and the saved
\* library, in the order of the concatenation; a source whose fetch raised
\* has count 0 and no track, and every other source its count and its ids.
C29_FirstOccurrencesInOrder ==
    ProfileReturned =>
        /\ \A i, j \in 1..Len(ret.tracks) :
              ret.tracks[i].track_id = ret.tracks[j].track_id => i = j
        /\ Len(ret.tracks) = Cardinality(FirstOccurrences)
        /\ \A k \in 1..Len(ret.tracks) : SameTrack(ret.tracks[k], Concatenation[PositionOf(k)])
        /\ \A key \in DOMAIN Fetches :
              IF Raised(Fetches[key])
              THEN /\ ret.sources[key] = 0
                   /\ key \in {"top_short", "top_medium", "top_long"} =>
                         \A k \in 1..Len(ret.tracks) : ret.tracks[k].source # key \o "_term"
                   /\ key \in {"recently_played", "saved_library"} =>
                         \A k \in 1..Len(ret.tracks) : ret.tracks[k].source # key
              ELSE /\ ret.sources[key] = Len(Fetches[key].items)
                   /\ \A i \in 1..Len(Fetches[key].items) :
                         \E k \in 1..Len(ret.tracks) : ret.tracks[k].track_id = Fetches[key].items[i].id

\* a profile returned although a fetch raised, with a track dropped as a
\* later occurrence and two tracks kept
C29_Witness ==
    /\ ProfileReturned
    /\ \E key \in DOMAIN Fetches : Raised(Fetches[key])
    /\ Len(ret.tracks) = 2
    /\ Len(Concatenation) > 2
    /\ ret.tracks[1].source # ret.tracks[2].source

====
